---- MODULE Spec2Model ----
(***************************************************************************)
(* Model of the Keras -> Darknet converter (src/python):                   *)
(*   - model_parsers/base_parser.py   LayerInfo, BaseParser                *)
(*   - model_parsers/keras_parser.py  KerasParser.parse_layers and         *)
(*                                    _match_conv_bn_pairs (reconciler)    *)
(*   - darknet_writer.py              DarknetWeightsWriter                 *)
(*                                                                         *)
(* Conventions.                                                            *)
(*   Optional[T]   : None is <<>>, a present value x is <<x>>.             *)
(*   str (names)   : a sequence of one-character strings, so that the      *)
(*                   regular expression of _match_conv_bn_pairs and the    *)
(*                   f-strings are computed on the characters.             *)
(*   ndarray       : 1-D arrays are sequences of numbers; the 4-D kernel   *)
(*                   is [shape, data] with data in C (row-major) order.    *)
(*   file          : a sequence of 4-byte words, each tagged with the      *)
(*                   struct / dtype code that produced it.                 *)
(***************************************************************************)
EXTENDS Integers, Sequences, FiniteSets

VARIABLES
    \* ---- KerasParser (keras_parser.py) ----
    model,        \* self.model.layers: the loaded Keras layers
    layers,       \* self.layers: the LayerInfo sequence
    parsed,       \* parse_layers has run
    prev_layers,  \* self.layers as it was before the latest reconciler run
    runs,         \* number of _match_conv_bn_pairs runs so far
    \* ---- DarknetWeightsWriter (darknet_writer.py) ----
    args,                  \* what the caller passes: the layer list and the header
                           \* fields; path_ok: output_path names no existing
                           \* directory, so that open() accepts it
    file_handle,           \* self.file_handle: "None" or "open"
    file,                  \* content of the file at output_path (4-byte words),
                           \* the words the open handle still buffers included
    position,              \* words written through the handle opened last
                           \* (file_handle.tell() / 4 while it is open)
    flushed,               \* how many of them have left the handle's buffer
    disk,                  \* the file as one who opens output_path now reads it:
                           \* None while there is no file, else its words
    total_bytes_written,   \* self.total_bytes_written
    call,                  \* the latest method call: its name, its layer argument, the
                           \* exception it raised and the handle, the file, the
                           \* position and the counter on entry
    ncalls,                \* number of method calls made
    result,                \* what the latest call of a reader (utils.py) returned
    \* ---- DarknetCfgGenerator (cfg_generator.py) ----
    cfg_args,     \* what the caller passes: layers, input_shape, batch, subdivisions
    cfg_file,     \* the file at the cfg output path: None, or its lines
    \* ---- main (h5_to_darknet.py) ----
    cli,          \* the parsed command line and what the environment answers
    pc,           \* the position main has reached
    exit_code     \* None while main runs, else what it returned

parserVars == <<model, layers, parsed, prev_layers, runs>>
writerVars == <<args, file_handle, file, position, flushed, disk,
                total_bytes_written, call, ncalls>>
readerVars == <<result>>
cfgVars == <<cfg_args, cfg_file>>
mainVars == <<cli, pc, exit_code>>
vars == <<model, layers, parsed, prev_layers, runs,
          args, file_handle, file, position, flushed, disk, total_bytes_written, call,
          ncalls,
          result, cfg_args, cfg_file, cli, pc, exit_code>>

(***************************************************************************)
(* Bounds of the model.                                                    *)
(***************************************************************************)
\* longest Keras model (number of layers) handed to parse_layers
MaxModelLen == 3
\* reconciler runs after the one parse_layers makes
MaxRuns == 2
\* longest layer list handed to the writer
MaxLayers == 2
\* method calls made on one DarknetWeightsWriter
MaxCalls == 4
\* longest layer list handed to the cfg generator
MaxCfgLayers == 2
\* longest Keras model main is run on
MaxMainModelLen == 2

(***************************************************************************)
(* Optional values and small helpers.                                      *)
(***************************************************************************)
None == <<>>
Some(x) == <<x>>
IsNone(o) == o = <<>>
Val(o) == o[1]

RECURSIVE Product(_)
Product(s) == IF s = <<>> THEN 1 ELSE Head(s) * Product(Tail(s))

\* ndarray.any(): some element is non-zero
AnyNonZero(a) == \E i \in 1..Len(a) : a[i] # 0

\* np.zeros(n)
Zeros(n) == [i \in 1..n |-> 0]

(***************************************************************************)
(* Names.                                                                  *)
(***************************************************************************)
\* A character outside ASCII is written by its code point: "U+0662" is the
\* one character ARABIC-INDIC DIGIT TWO.
AsciiDigits == {"0", "1", "2", "3", "4", "5", "6", "7", "8", "9"}

\* The characters of the Unicode category Nd outside ASCII that the names
\* below are made of (ARABIC-INDIC and FULLWIDTH DIGIT ONE and TWO).
OtherDecimalDigits == {"U+0661", "U+0662", "U+FF11", "U+FF12"}

\* What \d matches in a str pattern compiled without re.ASCII: every Unicode
\* decimal digit.
Digits == AsciiDigits \cup OtherDecimalDigits

S_conv2d == <<"c","o","n","v","2","d">>
S_convolutional == <<"c","o","n","v","o","l","u","t","i","o","n","a","l">>
S_batch_normalization ==
    <<"b","a","t","c","h","_","n","o","r","m","a","l","i","z","a","t","i","o","n">>
S_bn == <<"b","n">>
S_max_pooling2d == <<"m","a","x","_","p","o","o","l","i","n","g","2","d">>
S_leaky_re_lu == <<"l","e","a","k","y","_","r","e","_","l","u">>
S_add == <<"a","d","d">>
S_concatenate == <<"c","o","n","c","a","t","e","n","a","t","e">>
S_up_sampling2d == <<"u","p","_","s","a","m","p","l","i","n","g","2","d">>

\* f'{stem}_{num}'
Suffixed(stem, num) == stem \o <<"_">> \o num

\* The part of the name that ends where '$' matches: '$' (without
\* re.MULTILINE) matches at the end of the string and just before a newline
\* that ends the string.
BeforeDollar(name) ==
    IF name # <<>> /\ name[Len(name)] = "\n"
    THEN SubSeq(name, 1, Len(name) - 1)
    ELSE name

\* Number of digit characters that end the sequence of characters.
RECURSIVE DigitRun(_)
DigitRun(s) ==
    IF s = <<>> \/ s[Len(s)] \notin Digits THEN 0
    ELSE 1 + DigitRun(SubSeq(s, 1, Len(s) - 1))

\* Length of what (\d+)$ can match in the name.
TrailingDigits(name) == DigitRun(BeforeDollar(name))

\* re.search(r'_(\d+)$', name): None when there is no match, else group(1).
RegexTrailingNum(name) ==
    LET stem == BeforeDollar(name)
        n == Len(stem)
        k == TrailingDigits(name)
    IN  IF k >= 1 /\ k < n /\ stem[n - k] = "_"
        THEN Some(SubSeq(stem, n - k + 1, n))
        ELSE None

(***************************************************************************)
(* LayerInfo (base_parser.py): the dataclass and its defaults.             *)
(* input_shape / output_shape are metadata no operation below reads.       *)
(***************************************************************************)
LayerInfo(name, type, index) ==
    [name |-> name, type |-> type, index |-> index,
     filters |-> None, channels |-> None, kernel_size |-> None,
     stride |-> None, padding |-> None, groups |-> None,
     activation |-> None, batch_normalize |-> FALSE,
     weights |-> None, biases |-> None,
     bn_gamma |-> None, bn_beta |-> None, bn_mean |-> None,
     bn_variance |-> None,
     pool_size |-> None, pool_stride |-> None, layers |-> None]

(***************************************************************************)
(* The Keras layers a loaded model holds (the loader is external).  A      *)
(* Keras layer is                                                          *)
(*   [cls, name, weights (get_weights(): a list of arrays), kernel_size,   *)
(*    strides, padding, groups, activation, filters, in_channels,          *)
(*    pool_size, size]                                                     *)
(* where the fields after weights are get_config() / input_shape entries.  *)
(***************************************************************************)
KerasLayer(cls, name, weights) ==
    [cls |-> cls, name |-> name, weights |-> weights,
     kernel_size |-> <<1, 1>>, strides |-> <<1, 1>>, padding |-> "same",
     groups |-> 1, activation |-> "linear", filters |-> 2, in_channels |-> 2,
     pool_size |-> <<2, 2>>, size |-> <<2, 2>>]

\* A Keras kernel: shape (height, width, in_channels, out_channels).
KernelHWIO == [shape |-> <<1, 1, 2, 2>>, data |-> <<1, 2, 3, 4>>]

\* get_weights() of a Conv2D: [kernel] with use_bias=False, else [kernel, bias].
ConvWeightLists == {<<KernelHWIO>>, <<KernelHWIO, <<0, 0>>>>, <<KernelHWIO, <<5, 6>>>>}

ConvNames == {Suffixed(S_conv2d, <<"1","2">>), Suffixed(S_convolutional, <<"1","2">>),
              S_conv2d, Suffixed(S_conv2d, <<"7">>)}

\* "12" in ARABIC-INDIC digits
ArabicIndic12 == <<"U+0661", "U+0662">>

\* get_weights() of the BatchNormalization number k: [gamma, beta, moving_mean,
\* moving_variance]; the values tell the layers apart.
BnWeights(k) == << <<10*k + 1, 10*k + 1>>, <<10*k + 2, 10*k + 2>>,
                   <<10*k + 3, 10*k + 3>>, <<10*k + 4, 10*k + 4>> >>

\* The last one is a Conv2D that is not built: get_weights() is empty.
KerasConvs ==
    {KerasLayer("Conv2D", n, w) : n \in ConvNames, w \in ConvWeightLists}
    \cup {KerasLayer("Conv2D", Suffixed(S_conv2d, <<"1","2">>), <<>>),
          KerasLayer("Conv2D", Suffixed(S_conv2d, ArabicIndic12), <<KernelHWIO>>)}

KerasBns ==
    { KerasLayer("BatchNormalization", Suffixed(S_batch_normalization, <<"1","2">>), BnWeights(1)),
      KerasLayer("BatchNormalization", S_batch_normalization, BnWeights(2)),
      KerasLayer("BatchNormalization", Suffixed(S_bn, <<"1","2">>), BnWeights(3)),
      \* scale=False: get_weights() holds three arrays
      KerasLayer("BatchNormalization", Suffixed(S_batch_normalization, <<"7">>),
                 SubSeq(BnWeights(4), 2, 4)),
      \* a name that ends with a newline
      KerasLayer("BatchNormalization", Suffixed(S_bn, <<"7", "\n">>), BnWeights(5)),
      \* a number written in digits outside ASCII
      KerasLayer("BatchNormalization", Suffixed(S_bn, ArabicIndic12), BnWeights(6)) }

KerasOthers ==
    { KerasLayer("MaxPooling2D", S_max_pooling2d, <<>>),
      KerasLayer("UpSampling2D", S_up_sampling2d, <<>>),
      KerasLayer("Concatenate", S_concatenate, <<>>),
      KerasLayer("Add", S_add, <<>>),
      \* a class the parser skips
      KerasLayer("LeakyReLU", S_leaky_re_lu, <<>>) }

KerasLayers == KerasConvs \cup KerasBns \cup KerasOthers

\* Keras gives the layers of one model distinct names.
DistinctNames(m) == \A i, j \in 1..Len(m) : i # j => m[i].name # m[j].name

KerasModels ==
    UNION { {m \in [1..n -> KerasLayers] : DistinctNames(m)} : n \in 1..MaxModelLen }

(***************************************************************************)
(* KerasParser._parse_* : one Keras layer to one LayerInfo (or None).      *)
(***************************************************************************)
\* np.transpose(w, [3, 2, 0, 1]): (h, w, in, out) -> (out, in, h, w).  The
\* element (o, i, y, x) of the result is the element (y, x, i, o) of w.
Transpose3201(w) ==
    LET H == w.shape[1]
        W == w.shape[2]
        I == w.shape[3]
        O == w.shape[4]
        \* 0-based coordinates of the flat position p (0-based) of the result
        src(p) == LET x == p % W
                      y == (p \div W) % H
                      i == (p \div (W * H)) % I
                      o == p \div (W * H * I)
                  IN  ((y * W + x) * I + i) * O + o
    IN  [shape |-> <<O, I, H, W>>,
         data |-> [p \in 1..Len(w.data) |-> w.data[src(p - 1) + 1]]]

ParseConv2d(layer, index, conv_idx) ==
    LET kernel_size == layer.kernel_size[1]
        stride == layer.strides[1]
        padding == IF layer.padding = "same" THEN kernel_size \div 2 ELSE 0
        conv_weights == IF Len(layer.weights) >= 1
                        THEN Some(Transpose3201(layer.weights[1])) ELSE None
        conv_biases == IF Len(layer.weights) >= 2 THEN Some(layer.weights[2])
                       ELSE IF ~IsNone(conv_weights)
                            THEN Some(Zeros(Val(conv_weights).shape[1]))
                            ELSE None
        filters == IF ~IsNone(conv_weights) THEN Val(conv_weights).shape[1]
                   ELSE layer.filters
        channels == IF ~IsNone(conv_weights)
                    THEN Val(conv_weights).shape[2] * layer.groups
                    ELSE layer.in_channels
    IN  [LayerInfo(layer.name, "convolutional", index) EXCEPT
            !.filters = Some(filters), !.channels = Some(channels),
            !.kernel_size = Some(kernel_size), !.stride = Some(stride),
            !.padding = Some(padding), !.groups = Some(layer.groups),
            !.activation = Some(layer.activation), !.batch_normalize = FALSE,
            !.weights = conv_weights, !.biases = conv_biases]

ParseBatchNorm(layer, index) ==
    IF Len(layer.weights) < 4 THEN None
    ELSE Some([LayerInfo(layer.name, "batch_normalization", index) EXCEPT
                 !.bn_gamma = Some(layer.weights[1]),
                 !.bn_beta = Some(layer.weights[2]),
                 !.bn_mean = Some(layer.weights[3]),
                 !.bn_variance = Some(layer.weights[4])])

ParseMaxpool(layer, index) ==
    [LayerInfo(layer.name, "maxpool", index) EXCEPT
        !.pool_size = Some(layer.pool_size[1]),
        !.pool_stride = Some(layer.strides[1])]

ParseUpsample(layer, index) ==
    [LayerInfo(layer.name, "upsample", index) EXCEPT !.stride = Some(layer.size[1])]

ParseConcatenate(layer, index) == LayerInfo(layer.name, "route", index)

ParseAdd(layer, index) == LayerInfo(layer.name, "shortcut", index)

\* _parse_single_layer: None for the classes the parser skips.
ParseSingleLayer(layer, index, conv_idx) ==
    CASE layer.cls = "Conv2D" -> Some(ParseConv2d(layer, index, conv_idx))
      [] layer.cls = "BatchNormalization" -> ParseBatchNorm(layer, index)
      [] layer.cls = "MaxPooling2D" -> Some(ParseMaxpool(layer, index))
      [] layer.cls = "UpSampling2D" -> Some(ParseUpsample(layer, index))
      [] layer.cls = "Concatenate" -> Some(ParseConcatenate(layer, index))
      [] layer.cls = "Add" -> Some(ParseAdd(layer, index))
      [] OTHER -> None

\* The first pass of parse_layers: enumerate(self.model.layers), idx from 0.
RECURSIVE ParseLoop(_, _, _, _)
ParseLoop(m, pos, conv_idx, acc) ==
    IF pos > Len(m) THEN acc
    ELSE LET layer_info == ParseSingleLayer(m[pos], pos - 1, conv_idx)
         IN  IF IsNone(layer_info) THEN ParseLoop(m, pos + 1, conv_idx, acc)
             ELSE ParseLoop(m, pos + 1,
                            IF Val(layer_info).type = "convolutional"
                            THEN conv_idx + 1 ELSE conv_idx,
                            Append(acc, Val(layer_info)))


(***************************************************************************)
(* KerasParser._match_conv_bn_pairs (the reconciler).                      *)
(***************************************************************************)
\* The keys of bn_layers that one batch_normalization record sets.
BnKeys(name) ==
    LET match == RegexTrailingNum(name)
    IN  IF ~IsNone(match)
        THEN {Suffixed(S_conv2d, Val(match)), Suffixed(S_convolutional, Val(match))}
        ELSE IF name = S_batch_normalization THEN {S_conv2d}
        ELSE {}

\* The first loop: the dict bn_layers, from a convolution name to the position
\* (1-based) in self.layers of the record stored under it; a later record
\* overwrites an earlier one under the same key.
RECURSIVE BnLayersLoop(_, _, _)
BnLayersLoop(ls, pos, d) ==
    IF pos > Len(ls) THEN d
    ELSE LET keys == IF ls[pos].type = "batch_normalization"
                     THEN BnKeys(ls[pos].name) ELSE {}
         IN  BnLayersLoop(ls, pos + 1,
                          [k \in DOMAIN d \cup keys |->
                              IF k \in keys THEN pos ELSE d[k]])

BnLayers(ls) == BnLayersLoop(ls, 1, [k \in {} |-> 0])

\* bn_layer of the record at position i: by name, else the next record when it
\* is a batch_normalization.  None, or the position of the record.
ResolveBnShortRange(ls, d, i) ==
    IF ls[i].name \in DOMAIN d THEN Some(d[ls[i].name])
    ELSE IF i + 1 < Len(ls) /\ ls[i + 1].type = "batch_normalization"
         THEN Some(i + 1)
         ELSE None

ResolveBn(ls, d, i) ==
    IF ls[i].name \in DOMAIN d THEN Some(d[ls[i].name])
    ELSE IF i + 1 <= Len(ls) /\ ls[i + 1].type = "batch_normalization"
         THEN Some(i + 1)
         ELSE None

\* The body of "if bn_layer:", with the shift added to the biases.
FuseBnAddingShift(current, bn_layer) ==
    [current EXCEPT
        !.batch_normalize = TRUE,
        !.bn_gamma = bn_layer.bn_gamma,
        !.bn_beta = bn_layer.bn_beta,
        !.bn_mean = bn_layer.bn_mean,
        !.bn_variance = bn_layer.bn_variance,
        !.biases = IF IsNone(current.biases) THEN bn_layer.bn_beta
                   ELSE Some([k \in 1..Len(Val(current.biases)) |->
                                Val(current.biases)[k] + Val(bn_layer.bn_beta)[k]])]

\* The body of "if bn_layer:", with the biases replaced in every case.
FuseBnAlwaysShift(current, bn_layer) ==
    [current EXCEPT
        !.batch_normalize = TRUE,
        !.bn_gamma = bn_layer.bn_gamma,
        !.bn_beta = bn_layer.bn_beta,
        !.bn_mean = bn_layer.bn_mean,
        !.bn_variance = bn_layer.bn_variance,
        !.biases = bn_layer.bn_beta]

\* The body of "if bn_layer:", taking the index of the normalization too.
FuseBnTakingIndex(current, bn_layer) ==
    [current EXCEPT
        !.index = bn_layer.index,
        !.batch_normalize = TRUE,
        !.bn_gamma = bn_layer.bn_gamma,
        !.bn_beta = bn_layer.bn_beta,
        !.bn_mean = bn_layer.bn_mean,
        !.bn_variance = bn_layer.bn_variance,
        !.biases = IF IsNone(current.biases) \/ ~AnyNonZero(Val(current.biases))
                   THEN bn_layer.bn_beta
                   ELSE current.biases]

\* The body of "if bn_layer:".
FuseBn(current, bn_layer) ==
    [current EXCEPT
        !.batch_normalize = TRUE,
        !.bn_gamma = bn_layer.bn_gamma,
        !.bn_beta = bn_layer.bn_beta,
        !.bn_mean = bn_layer.bn_mean,
        !.bn_variance = bn_layer.bn_variance,
        !.biases = IF IsNone(current.biases) \/ ~AnyNonZero(Val(current.biases))
                   THEN bn_layer.bn_beta
                   ELSE current.biases]

\* The second loop, over range(len(self.layers)).
RECURSIVE MatchLoop(_, _, _)
MatchLoop(ls, d, i) ==
    IF i > Len(ls) THEN ls
    ELSE IF ls[i].type = "convolutional"
         THEN LET bn_layer == ResolveBn(ls, d, i)
              IN  IF ~IsNone(bn_layer)
                  THEN MatchLoop([ls EXCEPT ![i] = FuseBn(ls[i], ls[Val(bn_layer)])],
                                 d, i + 1)
                  ELSE MatchLoop(ls, d, i + 1)
         ELSE MatchLoop(ls, d, i + 1)

MatchConvBnPairs(ls) == MatchLoop(ls, BnLayers(ls), 1)

(***************************************************************************)
(* The parser as a state machine.                                          *)
(***************************************************************************)
NoCall == [op |-> "none", layer |-> <<>>, raised |-> "none",
           handle_before |-> "None", file_before |-> <<>>, position_before |-> 0,
           total_before |-> 0]

NoArgs == [layers |-> <<>>, major |-> 0, minor |-> 2, revision |-> 0, seen |-> 0,
           path_ok |-> TRUE]

\* DarknetWeightsWriter.__init__: no file opened, nothing written.
WriterIdle ==
    /\ file_handle = "None"
    /\ file = <<>>
    /\ position = 0
    /\ flushed = 0
    /\ disk = None
    /\ total_bytes_written = 0
    /\ call = NoCall
    /\ ncalls = 0

\* No reader of utils.py has been called.
ReaderIdle == result = None

NoCfgArgs == [layers |-> <<>>, input_shape |-> <<416, 416, 3>>,
              batch |-> 1, subdivisions |-> 1]

\* No DarknetCfgGenerator at work: nothing at the cfg output path.
CfgIdle ==
    /\ cfg_args = NoCfgArgs
    /\ cfg_file = None

\* The defaults of parse_arguments(); input_ok is what the environment
\* answers to the file, format and load checks main makes before parsing,
\* weights_ok and cfg_ok whether the paths of --output-weights and
\* --output-cfg can be opened for writing (they name no existing directory),
\* input_shape the input_shape of the model load_model loads.
NoCli == [seen |-> 0, batch |-> 1, subdivisions |-> 1, input_ok |-> TRUE,
          weights_ok |-> TRUE, cfg_ok |-> TRUE,
          input_shape |-> [is_list |-> FALSE, value |-> <<>>],
          img_size |-> None, img_width |-> None, img_height |-> None, channels |-> 3]

\* main is not running.
MainIdle ==
    /\ cli = NoCli
    /\ pc = "idle"
    /\ exit_code = None

InitParser ==
    /\ model \in KerasModels
    /\ layers = <<>>
    /\ parsed = FALSE
    /\ prev_layers = <<>>
    /\ runs = 0
    /\ args = NoArgs
    /\ WriterIdle
    /\ ReaderIdle
    /\ CfgIdle
    /\ MainIdle

\* parse_layers(): the first pass, then _match_conv_bn_pairs().
ParseLayers ==
    /\ ~parsed
    /\ prev_layers' = ParseLoop(model, 1, 0, <<>>)
    /\ layers' = MatchConvBnPairs(prev_layers')
    /\ parsed' = TRUE
    /\ runs' = 1
    /\ UNCHANGED <<model, writerVars, readerVars, cfgVars, mainVars>>

\* _match_conv_bn_pairs() once more, on the sequence it left.
MatchAgain ==
    /\ parsed
    /\ runs <= MaxRuns
    /\ prev_layers' = layers
    /\ layers' = MatchConvBnPairs(layers)
    /\ runs' = runs + 1
    /\ UNCHANGED <<model, parsed, writerVars, readerVars, cfgVars, mainVars>>

NextParser == ParseLayers \/ MatchAgain

SpecParser == InitParser /\ [][NextParser]_vars

(***************************************************************************)
(* Claims about the reconciler, checked under SpecParser.                  *)
(***************************************************************************)
IsConv(l) == l.type = "convolutional"
IsBn(l) == l.type = "batch_normalization"

\* The convolution record c holds the normalization arrays of the record b.
FusedFrom(c, b) ==
    /\ IsConv(c) /\ IsBn(b)
    /\ c.batch_normalize
    /\ c.bn_gamma = b.bn_gamma
    /\ c.bn_beta = b.bn_beta
    /\ c.bn_mean = b.bn_mean
    /\ c.bn_variance = b.bn_variance

Positions == 1..Len(layers)

\* C1 as stated: once parse_layers has returned, the sequence holds no
\* batch_normalization record.
C1_NoNormalizationRecordLeft ==
    parsed => \A i \in Positions : ~IsBn(layers[i])

\* C2 as stated: no two distinct convolution records hold the arrays of the
\* same batch_normalization record.
C2_NormalizationFusedAtMostOnce ==
    parsed =>
        \A b, i, j \in Positions :
            (i # j /\ FusedFrom(layers[i], layers[b])) => ~FusedFrom(layers[j], layers[b])

\* C3 as stated: in a sequence that holds batch_normalization_N and conv2d_N,
\* the record batch_normalization_N is fused into the convolution conv2d_N and
\* into no other convolution of the sequence.
C3_NameCorrelationExclusive ==
    parsed =>
        \A b, c, t \in Positions :
            LET num == RegexTrailingNum(layers[b].name)
            IN  ( /\ IsBn(layers[b]) /\ IsConv(layers[c]) /\ IsConv(layers[t])
                  /\ ~IsNone(num)
                  /\ layers[b].name = Suffixed(S_batch_normalization, Val(num))
                  /\ layers[t].name = Suffixed(S_conv2d, Val(num)) )
                => ( FusedFrom(layers[c], layers[b]) <=> c = t )

\* The convolution at position i of ls has no name-correlated normalization
\* and the record right after it is a batch_normalization.
FallbackCase(ls, i) ==
    /\ IsConv(ls[i])
    /\ \A j \in 1..Len(ls) : IsBn(ls[j]) => ls[i].name \notin BnKeys(ls[j].name)
    /\ i + 1 <= Len(ls)
    /\ IsBn(ls[i + 1])

\* C4: positional fallback: such a convolution gets batch_normalize = True and
\* the gamma, beta, mean and variance of the record that follows it.
C4_PositionalFallback ==
    parsed =>
        \A i \in 1..Len(prev_layers) :
            FallbackCase(prev_layers, i) => FusedFrom(layers[i], prev_layers[i + 1])

C4_FallbackTaken ==
    /\ parsed
    /\ runs = 1
    /\ \E i \in 1..Len(prev_layers) :
          /\ FallbackCase(prev_layers, i)
          /\ ~prev_layers[i].batch_normalize
          /\ FusedFrom(layers[i], prev_layers[i + 1])
          /\ i + 1 = Len(prev_layers)

\* C5: a second run of the reconciler on its own output changes nothing: the
\* sequence and every field of every record are as the first run left them.
C5_SecondRunIsNoOp ==
    runs >= 2 => layers = prev_layers

C5_SecondRunAfterFusion ==
    /\ runs = 2
    /\ \E i, j \in Positions :
          /\ FusedFrom(layers[i], layers[j])
          /\ layers[i].biases = layers[j].bn_beta
    /\ \E i, j \in Positions :
          /\ FusedFrom(layers[i], layers[j])
          /\ layers[i].biases # layers[j].bn_beta

\* The convolution at position i of ls finds a partner: a normalization
\* correlated with it by name, or the record right after it.
HasPartner(ls, i) ==
    /\ IsConv(ls[i])
    /\ \/ \E j \in 1..Len(ls) : IsBn(ls[j]) /\ ls[i].name \in BnKeys(ls[j].name)
       \/ i + 1 <= Len(ls) /\ IsBn(ls[i + 1])

BiasesAbsentOrZero(c) == IsNone(c.biases) \/ \A k \in 1..Len(Val(c.biases)) : Val(c.biases)[k] = 0

\* C21: a convolution that finds a partner gets batch_normalize = True and the
\* four arrays of one normalization record, and its biases become that
\* record's beta exactly when they were None or all zero; biases with a
\* non-zero value stay as they were.
C21_BiasesReplacedOnlyWhenAbsentOrZero ==
    runs >= 1 =>
        \A i \in 1..Len(prev_layers) :
            HasPartner(prev_layers, i) =>
                \E j \in 1..Len(prev_layers) :
                    /\ FusedFrom(layers[i], prev_layers[j])
                    /\ layers[i].biases =
                          IF BiasesAbsentOrZero(prev_layers[i])
                          THEN prev_layers[j].bn_beta
                          ELSE prev_layers[i].biases

C21_AbsentZeroAndNonZeroBiasesFused ==
    /\ runs = 1
    /\ \E i, j \in Positions :
          /\ IsNone(prev_layers[i].biases) /\ FusedFrom(layers[i], layers[j])
          /\ layers[i].biases = layers[j].bn_beta
    /\ \E i, j \in Positions :
          /\ ~BiasesAbsentOrZero(prev_layers[i]) /\ FusedFrom(layers[i], layers[j])
          /\ layers[i].biases = prev_layers[i].biases
          /\ layers[i].biases # layers[j].bn_beta

\* The record l is the record p but for batch_normalize, the four
\* normalization arrays and biases.
SameButNormalization(l, p) ==
    [l EXCEPT !.batch_normalize = p.batch_normalize,
              !.bn_gamma = p.bn_gamma, !.bn_beta = p.bn_beta,
              !.bn_mean = p.bn_mean, !.bn_variance = p.bn_variance,
              !.biases = p.biases] = p

\* C22: one run of the reconciler keeps the number and the order of the
\* records, changes nothing but batch_normalize, the four normalization arrays
\* and biases, and changes no record other than a convolution that found a
\* partner.
C22_ReconcilerFrame ==
    runs >= 1 =>
        /\ Len(layers) = Len(prev_layers)
        /\ \A i \in 1..Len(prev_layers) :
              /\ SameButNormalization(layers[i], prev_layers[i])
              /\ ~HasPartner(prev_layers, i) => layers[i] = prev_layers[i]

C22_FusedUnmatchedAndOtherRecords ==
    /\ runs = 1
    /\ \E i \in Positions : HasPartner(prev_layers, i) /\ layers[i] # prev_layers[i]
    /\ \E i \in Positions : IsConv(prev_layers[i]) /\ ~HasPartner(prev_layers, i)
    /\ \E i \in Positions : ~IsConv(prev_layers[i])

\* C23 as stated: after parse_layers the k-th record (from 0) has index k.
C23_IndexDense ==
    parsed => \A k \in Positions : layers[k].index = k - 1

(***************************************************************************)
(* DarknetWeightsWriter (darknet_writer.py).                               *)
(*                                                                         *)
(* The file is a sequence of 4-byte words.  struct.pack('i') and each      *)
(* half of struct.pack('q') give an "int32" word, ndarray.tofile of a      *)
(* float32 array gives one "float32" word per element.  Header arguments   *)
(* are taken inside the ranges struct.pack accepts.                        *)
(***************************************************************************)
Int32Word(v) == [t |-> "int32", v |-> v]
Float32Word(v) == [t |-> "float32", v |-> v]

\* struct.pack('q', seen) in the host's (little-endian) order: the low word,
\* then the high word, for a value inside the int32 range.
Int64Words(v) == <<Int32Word(v), Int32Word(IF v < 0 THEN -1 ELSE 0)>>

\* The cast to float32 of np.array(x, dtype=np.float32), on an integer value:
\* exact up to 2^24, rounded to the nearest even multiple of 2 up to 2^25.
ToFloat32(x) ==
    LET a == IF x < 0 THEN -x ELSE x
        r == IF a <= 2^24 \/ a % 2 = 0 THEN a
             ELSE IF ((a - 1) \div 2) % 2 = 0 THEN a - 1 ELSE a + 1
    IN  IF x < 0 THEN -r ELSE r

\* np.array(a, dtype=np.float32).tofile(f)
FloatWords(a) == [i \in 1..Len(a) |-> Float32Word(ToFloat32(a[i]))]

Written(words) == [words |-> words, raised |-> "none"]
Raised(words, exception) == [words |-> words, raised |-> exception]

\* write_header on an open file, with the version test off by one.
HeaderWordsStrictlyAbove(major, minor, revision, seen) ==
    Written(<<Int32Word(major), Int32Word(minor), Int32Word(revision)>>
            \o (IF (major * 10 + minor) > 2 THEN Int64Words(seen)
                ELSE <<Int32Word(seen)>>))

\* write_header on an open file: the words it writes.
HeaderWords(major, minor, revision, seen) ==
    Written(<<Int32Word(major), Int32Word(minor), Int32Word(revision)>>
            \o (IF (major * 10 + minor) >= 2 THEN Int64Words(seen)
                ELSE <<Int32Word(seen)>>))

\* The counter after write_header: += 12, then += 8 or += 4.
HeaderBytes(major, minor) == 12 + (IF (major * 10 + minor) >= 2 THEN 8 ELSE 4)

\* "if layer.batch_normalize:" of write_convolutional_layer, with the mean
\* written before the scales.
BnWordsMeanFirst(layer, n) ==
    IF ~layer.batch_normalize THEN Written(<<>>)
    ELSE IF IsNone(layer.bn_gamma) \/ IsNone(layer.bn_mean) \/ IsNone(layer.bn_variance)
         THEN Raised(<<>>, "ValueError")
    ELSE LET scales == FloatWords(Val(layer.bn_gamma))
             mean == FloatWords(Val(layer.bn_mean))
             variance == FloatWords(Val(layer.bn_variance))
         IN  IF Len(mean) # n THEN Raised(<<>>, "ValueError")
             ELSE IF Len(scales) # n THEN Raised(mean, "ValueError")
             ELSE IF Len(variance) # n THEN Raised(mean \o scales, "ValueError")
             ELSE Written(mean \o scales \o variance)

\* "if layer.batch_normalize:" of write_convolutional_layer: each array is
\* checked and then written, in the order scales, mean, variance.
BnWords(layer, n) ==
    IF ~layer.batch_normalize THEN Written(<<>>)
    ELSE IF IsNone(layer.bn_gamma) \/ IsNone(layer.bn_mean) \/ IsNone(layer.bn_variance)
         THEN Raised(<<>>, "ValueError")
    ELSE LET scales == FloatWords(Val(layer.bn_gamma))
             mean == FloatWords(Val(layer.bn_mean))
             variance == FloatWords(Val(layer.bn_variance))
         IN  IF Len(scales) # n THEN Raised(<<>>, "ValueError")
             ELSE IF Len(mean) # n THEN Raised(scales, "ValueError")
             ELSE IF Len(variance) # n THEN Raised(scales \o mean, "ValueError")
             ELSE Written(scales \o mean \o variance)

\* "# Write weights": num_weights is layer.weights.size, read before the cast.
WeightsWords(layer) ==
    LET num_weights == Product(Val(layer.weights).shape)
        weights == FloatWords(Val(layer.weights).data)
    IN  IF Len(weights) # num_weights THEN Raised(<<>>, "ValueError")
        ELSE Written(weights)

\* write_convolutional_layer on an open file, rejecting a record without biases.
ConvWordsRequiringBiases(layer) ==
    IF layer.type # "convolutional" THEN Raised(<<>>, "ValueError")
    ELSE IF IsNone(layer.weights) \/ IsNone(layer.biases) THEN Raised(<<>>, "ValueError")
    ELSE LET n == Val(layer.filters)
             biases == IF IsNone(layer.biases) THEN FloatWords(Zeros(n))
                       ELSE FloatWords(Val(layer.biases))
         IN  IF Len(biases) # n THEN Raised(<<>>, "ValueError")
             ELSE LET bn == BnWords(layer, n)
                  IN  IF bn.raised # "none" THEN Raised(biases \o bn.words, bn.raised)
                      ELSE LET w == WeightsWords(layer)
                           IN  Raised(biases \o bn.words \o w.words, w.raised)

\* write_convolutional_layer on an open file: the words it writes and the
\* exception that ends it.
ConvWords(layer) ==
    IF layer.type # "convolutional" THEN Raised(<<>>, "ValueError")
    ELSE IF IsNone(layer.weights) THEN Raised(<<>>, "ValueError")
    ELSE LET n == Val(layer.filters)
             biases == IF IsNone(layer.biases) THEN FloatWords(Zeros(n))
                       ELSE FloatWords(Val(layer.biases))
         IN  IF Len(biases) # n THEN Raised(<<>>, "ValueError")
             ELSE LET bn == BnWords(layer, n)
                  IN  IF bn.raised # "none" THEN Raised(biases \o bn.words, bn.raised)
                      ELSE LET w == WeightsWords(layer)
                           IN  Raised(biases \o bn.words \o w.words, w.raised)

\* conv_layers of write_layers, without the filter on the type.
ConvLayersUnfiltered(ls) == ls

\* conv_layers = [l for l in layers if l.type == 'convolutional']
RECURSIVE ConvLayers(_)
ConvLayers(ls) ==
    IF ls = <<>> THEN <<>>
    ELSE IF Head(ls).type = "convolutional" THEN <<Head(ls)>> \o ConvLayers(Tail(ls))
         ELSE ConvLayers(Tail(ls))

\* The loop of write_layers over conv_layers: it ends at the first exception.
RECURSIVE ConvLoopWords(_)
ConvLoopWords(conv_layers) ==
    IF conv_layers = <<>> THEN Written(<<>>)
    ELSE LET first == ConvWords(Head(conv_layers))
         IN  IF first.raised # "none" THEN first
             ELSE LET rest == ConvLoopWords(Tail(conv_layers))
                  IN  Raised(first.words \o rest.words, rest.raised)

\* write_layers on an open file.
LayersWords(ls) == ConvLoopWords(ConvLayers(ls))

\* The body of write_model between open() and close().
ModelWords(ls, major, minor, revision, seen) ==
    LET header == HeaderWords(major, minor, revision, seen)
        blocks == LayersWords(ls)
    IN  Raised(header.words \o blocks.words, blocks.raised)

(***************************************************************************)
(* The arguments a caller hands to the writer.                             *)
(***************************************************************************)
S_conv == <<"c">>

\* A valid convolution record without normalization: 2 filters, 1 input
\* channel, 1x1 kernel, so 2 weights.
ConvRecord ==
    [LayerInfo(S_conv, "convolutional", 0) EXCEPT
        !.filters = Some(2), !.channels = Some(1), !.kernel_size = Some(1),
        !.stride = Some(1), !.padding = Some(0), !.groups = Some(1),
        !.activation = Some("linear"),
        !.weights = Some([shape |-> <<2, 1, 1, 1>>, data |-> <<7, 8>>]),
        !.biases = Some(<<1, 2>>)]

\* The same record after a fusion; one variance is no float32 value.
FusedRecord ==
    [ConvRecord EXCEPT
        !.batch_normalize = TRUE,
        !.biases = Some(<<11, 12>>),
        !.bn_gamma = Some(<<3, 4>>), !.bn_beta = Some(<<11, 12>>),
        !.bn_mean = Some(<<5, 6>>), !.bn_variance = Some(<<16777217, 9>>)]

WriterRecords ==
    { ConvRecord,
      FusedRecord,
      [ConvRecord EXCEPT !.biases = None],
      [ConvRecord EXCEPT !.biases = Some(<<1>>)],
      [ConvRecord EXCEPT !.weights = None],
      [ConvRecord EXCEPT !.weights = Some([shape |-> <<3, 1, 1, 1>>, data |-> <<7, 8, 9>>])],
      [FusedRecord EXCEPT !.bn_gamma = None],
      [FusedRecord EXCEPT !.bn_gamma = Some(<<3>>)],
      [FusedRecord EXCEPT !.bn_mean = Some(<<5>>)],
      [FusedRecord EXCEPT !.bn_variance = Some(<<16777217>>)],
      [FusedRecord EXCEPT !.bn_beta = None],
      [FusedRecord EXCEPT !.bn_beta = Some(<<11>>)],
      [LayerInfo(S_bn, "batch_normalization", 0) EXCEPT
          !.bn_gamma = Some(<<3, 4>>), !.bn_beta = Some(<<11, 12>>),
          !.bn_mean = Some(<<5, 6>>), !.bn_variance = Some(<<16777217, 9>>)],
      [LayerInfo(S_max_pooling2d, "maxpool", 0) EXCEPT
          !.pool_size = Some(2), !.pool_stride = Some(2)] }

\* The records of the lists of more than one record: a plain and a fused
\* convolution, one without biases, one whose block is refused part way, and
\* the records that are no convolutions.
ListedRecords ==
    { ConvRecord,
      FusedRecord,
      [ConvRecord EXCEPT !.biases = None],
      [FusedRecord EXCEPT !.bn_mean = Some(<<5>>)] }
    \cup { r \in WriterRecords : r.type # "convolutional" }

WriterLayerLists ==
    { <<>> } \cup { <<r>> : r \in WriterRecords }
    \cup UNION { [1..n -> ListedRecords] : n \in 2..MaxLayers }

\* (major, minor, revision, seen)
HeaderArgs == { <<0, 1, 0, 7>>, <<0, 2, 0, 7>>, <<1, 0, 3, -1>>, <<0, 0, 3, -1>> }

\* The output path is one open() accepts or one it refuses (an existing
\* directory, say).  Every header and either path with the lists of at most
\* one record; the longer lists with the header write_model writes by default
\* and a path open() accepts.
WriterArgs ==
    { a \in { [layers |-> ls, major |-> h[1], minor |-> h[2], revision |-> h[3],
               seen |-> h[4], path_ok |-> ok] :
                 ls \in WriterLayerLists, h \in HeaderArgs, ok \in BOOLEAN } :
        Len(a.layers) <= 1 \/ (a.major = 0 /\ a.minor = 2 /\ a.path_ok) }

\* The arrays handed to write_binary_floats; astype(np.float32) rounds 2^24 + 1.
FloatArrays == { <<1>>, <<16777217, 2>> }

(***************************************************************************)
(* The writer as a state machine: one action per method.                   *)
(***************************************************************************)
InitWriter ==
    /\ model = <<>>
    /\ layers = <<>>
    /\ parsed = FALSE
    /\ prev_layers = <<>>
    /\ runs = 0
    /\ args \in WriterArgs
    /\ WriterIdle
    /\ ReaderIdle
    /\ CfgIdle
    /\ MainIdle

\* What every method call records about itself.
Called(op, layer, raised) ==
    /\ ncalls < MaxCalls
    /\ ncalls' = ncalls + 1
    /\ call' = [op |-> op, layer |-> layer, raised |-> raised,
                handle_before |-> file_handle, file_before |-> file,
                position_before |-> position, total_before |-> total_bytes_written]

\* ndarray.nbytes of the float32 arrays written / the bytes of the packed words
NBytes(words) == 4 * Len(words)

\* Four zero bytes: what a hole of the file reads as.
ZeroWord == [t |-> "int32", v |-> 0]

\* The file after words have been written at the word offset pos: they replace
\* what the file held there and extend it where it was shorter.
WriteAt(words_of_file, pos, words) ==
    SubSeq(words_of_file, 1, pos) \o words
    \o SubSeq(words_of_file, pos + Len(words) + 1, Len(words_of_file))

\* What the truncated file holds once the handle that open() drops without
\* closing it has been finalised: the words the handle still buffered, at the
\* offset its descriptor had reached (the words flushed before are a hole).
DroppedHandleFlush ==
    IF position > flushed
    THEN [i \in 1..flushed |-> ZeroWord] \o SubSeq(file, flushed + 1, position)
    ELSE <<>>

\* The file right after open(self.output_path, 'wb') has replaced
\* self.file_handle.  With no handle to drop the file is empty.  A dropped
\* handle is finalised by the runtime: at once (CPython's reference count),
\* which flushes its buffer into the truncated file, or not before the file is
\* read, and then the file is empty.
ReopenedFiles ==
    IF file_handle = "None" THEN {<<>>} ELSE {<<>>, DroppedHandleFlush}

\* open(): open(self.output_path, 'wb') truncates the file; the handle the
\* writer held is not closed.
Open ==
    /\ IF args.path_ok
       THEN /\ Called("open", None, "none")
            /\ file_handle' = "open"
            /\ file' \in ReopenedFiles
            /\ disk' = Some(file')
            /\ position' = 0
            /\ flushed' = 0
            /\ total_bytes_written' = 0
       ELSE /\ Called("open", None, "IsADirectoryError")
            /\ UNCHANGED <<file_handle, file, disk, position, flushed,
                           total_bytes_written>>
    /\ UNCHANGED <<parserVars, readerVars, cfgVars, mainVars, args>>

\* close(): the buffer is flushed; nothing happens without a handle.
Close ==
    /\ Called("close", None, "none")
    /\ file_handle' = "None"
    /\ flushed' = position
    /\ disk' = IF file_handle = "None" THEN disk ELSE Some(file)
    /\ UNCHANGED <<parserVars, readerVars, cfgVars, mainVars, args, file, position,
                   total_bytes_written>>

\* write_header(major, minor, revision, seen): file_handle.write() of the
\* packed words, which stay in the handle's buffer.
WriteHeader ==
    /\ IF file_handle = "None"
       THEN /\ Called("write_header", None, "RuntimeError")
            /\ UNCHANGED <<file, position, total_bytes_written>>
       ELSE LET out == HeaderWords(args.major, args.minor, args.revision, args.seen)
            IN  /\ Called("write_header", None, out.raised)
                /\ file' = WriteAt(file, position, out.words)
                /\ position' = position + Len(out.words)
                /\ total_bytes_written' =
                       total_bytes_written + HeaderBytes(args.major, args.minor)
    /\ UNCHANGED <<parserVars, readerVars, cfgVars, mainVars, args, file_handle, flushed,
                   disk>>

\* ndarray.tofile(file_handle) flushes the handle's buffer and writes through
\* its descriptor: once an array has been written nothing is buffered.
FlushedAfter(words) == IF words # <<>> THEN position + Len(words) ELSE flushed

\* What a reader finds after a call that left the file as written: all of it
\* once an array has been written, else what it found before.
DiskAfter(words, written) == IF words # <<>> THEN Some(written) ELSE disk

\* write_convolutional_layer(layer), layer being one of the caller's records
WriteConvolutionalLayer ==
    \E k \in 1..Len(args.layers) :
        /\ IF file_handle = "None"
           THEN /\ Called("write_convolutional_layer", Some(args.layers[k]), "RuntimeError")
                /\ UNCHANGED <<file, position, flushed, disk, total_bytes_written>>
           ELSE LET out == ConvWords(args.layers[k])
                IN  /\ Called("write_convolutional_layer", Some(args.layers[k]), out.raised)
                    /\ file' = WriteAt(file, position, out.words)
                    /\ position' = position + Len(out.words)
                    /\ flushed' = FlushedAfter(out.words)
                    /\ disk' = DiskAfter(out.words, file')
                    /\ total_bytes_written' = total_bytes_written + NBytes(out.words)
        /\ UNCHANGED <<parserVars, readerVars, cfgVars, mainVars, args, file_handle>>

\* write_layers(layers): without a file, the first convolution record raises.
WriteLayers ==
    /\ IF file_handle = "None"
       THEN /\ Called("write_layers", None,
                      IF ConvLayers(args.layers) = <<>> THEN "none" ELSE "RuntimeError")
            /\ UNCHANGED <<file, position, flushed, disk, total_bytes_written>>
       ELSE LET out == LayersWords(args.layers)
            IN  /\ Called("write_layers", None, out.raised)
                /\ file' = WriteAt(file, position, out.words)
                /\ position' = position + Len(out.words)
                /\ flushed' = FlushedAfter(out.words)
                /\ disk' = DiskAfter(out.words, file')
                /\ total_bytes_written' = total_bytes_written + NBytes(out.words)
    /\ UNCHANGED <<parserVars, readerVars, cfgVars, mainVars, args, file_handle>>

\* write_model with close() after the try block, not in a finally clause.
WriteModelWithoutFinally ==
    LET out == ModelWords(args.layers, args.major, args.minor, args.revision, args.seen)
    IN  /\ IF args.path_ok
           THEN /\ Called("write_model", None, out.raised)
                /\ \E reopened \in ReopenedFiles : file' = WriteAt(reopened, 0, out.words)
                /\ position' = Len(out.words)
                /\ flushed' = Len(out.words)
                /\ disk' = Some(file')
                /\ total_bytes_written' =
                       HeaderBytes(args.major, args.minor)
                       + NBytes(LayersWords(args.layers).words)
                /\ file_handle' = IF out.raised = "none" THEN "None" ELSE "open"
           ELSE /\ Called("write_model", None, "IsADirectoryError")
                /\ UNCHANGED <<file_handle, file, disk, position, flushed,
                               total_bytes_written>>
        /\ UNCHANGED <<parserVars, readerVars, cfgVars, mainVars, args>>

\* write_model(layers, major, minor, revision, seen):
\* open(); try: write_header(...); write_layers(layers); finally: close()
\* An open() that raises is outside the try block: nothing else happens.
WriteModel ==
    LET out == ModelWords(args.layers, args.major, args.minor, args.revision, args.seen)
    IN  /\ IF args.path_ok
           THEN /\ Called("write_model", None, out.raised)
                /\ \E reopened \in ReopenedFiles : file' = WriteAt(reopened, 0, out.words)
                /\ position' = Len(out.words)
                /\ flushed' = Len(out.words)
                /\ disk' = Some(file')
                /\ total_bytes_written' =
                       HeaderBytes(args.major, args.minor)
                       + NBytes(LayersWords(args.layers).words)
                /\ file_handle' = "None"
           ELSE /\ Called("write_model", None, "IsADirectoryError")
                /\ UNCHANGED <<file_handle, file, disk, position, flushed,
                               total_bytes_written>>
        /\ UNCHANGED <<parserVars, readerVars, cfgVars, mainVars, args>>

\* np.fromfile(f, dtype=np.int64, count=1)[0] on the two words lo, hi (little-
\* endian), each given as an int32: the integer hi * 2^32 + (lo mod 2^32).  It
\* is lo when hi is the sign extension of lo; an integer outside the int32
\* range is given by its two halves.
Int64Value(lo, hi) ==
    IF (hi = 0 /\ lo >= 0) \/ (hi = -1 /\ lo < 0) THEN lo
    ELSE [hi |-> hi, lo |-> lo]

\* floor(log2(a)) of a positive integer
RECURSIVE FloorLog2(_)
FloorLog2(a) == IF a <= 1 THEN 0 ELSE 1 + FloorLog2(a \div 2)

\* The four bytes of the float32 value x (an integer no float32 rounds) read
\* as an int32: sign, exponent 127 + e, the 23 bits under the leading one.
Float32Bits(x) ==
    LET a == IF x < 0 THEN -x ELSE x
        e == FloorLog2(a)
        mantissa == IF e <= 23 THEN (a - 2^e) * 2^(23 - e) ELSE (a - 2^e) \div 2^(e - 23)
        magnitude == IF a = 0 THEN 0 ELSE (127 + e) * 2^23 + mantissa
    IN  IF x < 0 THEN (magnitude - 2147483647) - 1 ELSE magnitude

\* np.fromfile(f, dtype=np.int32) on one word of the file
AsInt32(word) == IF word.t = "int32" THEN word.v ELSE Float32Bits(word.v)

\* (major * 10 + minor) >= 2 on two int32 values, as the unbounded int of
\* Python gives it.
VersionAtLeast2(major, minor) ==
    IF major >= 214748365 THEN TRUE
    ELSE IF major <= -214748365 THEN FALSE
    ELSE IF minor >= 0 THEN major * 10 >= 2 - minor
    ELSE major * 10 >= 0 /\ major * 10 + minor >= 2

\* verify_darknet_weights_header on the words of a file: None when it raises
\* ValueError, else the tuple (major, minor, revision, seen).
VerifyHeader(words) ==
    LET header == SubSeq(words, 1, IF Len(words) < 5 THEN Len(words) ELSE 5)
    IN  IF Len(header) < 5 THEN None
        ELSE LET major == AsInt32(header[1])
                 minor == AsInt32(header[2])
                 revision == AsInt32(header[3])
                 seen == IF VersionAtLeast2(major, minor)
                         THEN Int64Value(AsInt32(words[4]), AsInt32(words[5]))
                         ELSE AsInt32(header[4])
             IN  Some(<<major, minor, revision, seen>>)

\* verify_darknet_weights_header(output_path): open(filepath, 'rb') raises
\* IsADirectoryError on a directory and FileNotFoundError while there is no
\* file; else the words a reader finds are read, whatever wrote them.
VerifyDarknetWeightsHeader ==
    /\ result' = IF IsNone(disk) THEN None ELSE VerifyHeader(Val(disk))
    /\ Called("verify_darknet_weights_header", None,
              IF ~args.path_ok THEN "IsADirectoryError"
              ELSE IF IsNone(disk) THEN "FileNotFoundError"
              ELSE IF IsNone(result') THEN "ValueError" ELSE "none")
    /\ UNCHANGED <<parserVars, cfgVars, mainVars, args, file_handle, file, position,
                   flushed, disk, total_bytes_written>>

\* write_binary_floats(file_handle, data) of utils.py on the handle the
\* writer holds open: data.astype(np.float32).tofile(file_handle).  The
\* counter of the writer is not told.
WriteBinaryFloats ==
    /\ file_handle = "open"
    /\ \E data \in FloatArrays :
          /\ Called("write_binary_floats", None, "none")
          /\ file' = WriteAt(file, position, FloatWords(data))
          /\ position' = position + Len(data)
          /\ flushed' = position'
          /\ disk' = Some(file')
    /\ UNCHANGED <<parserVars, readerVars, cfgVars, mainVars, args, file_handle,
                   total_bytes_written>>

NextWriter ==
    \/ VerifyDarknetWeightsHeader
    \/ WriteBinaryFloats
    \/ Open
    \/ Close
    \/ WriteHeader
    \/ WriteConvolutionalLayer
    \/ WriteLayers
    \/ WriteModel

SpecWriter == InitWriter /\ [][NextWriter]_vars

(***************************************************************************)
(* Claims about the writer, checked under SpecWriter.                      *)
(***************************************************************************)
\* The words the latest call wrote through the handle.
Appended == SubSeq(file, call.position_before + 1, position)

\* What the file held before the position of the handle is as it was.
KeptPrefix ==
    SubSeq(file, 1, call.position_before) =
        SubSeq(call.file_before, 1, call.position_before)

ReturnedFrom(op) == call.op = op /\ call.raised = "none"

\* C6 as stated: a convolution record that write_convolutional_layer rejects
\* leaves the file and total_bytes_written as they were before the call.
C6_RejectionWritesNothing ==
    (call.op = "write_convolutional_layer" /\ call.raised = "ValueError") =>
        /\ file = call.file_before
        /\ total_bytes_written = call.total_before

\* C7 as stated: an accepted record appends
\* 4 * (filters + (3 * filters if batch_normalize) + filters * channels / groups * kernel_size^2)
\* bytes (so a weights buffer of another size is not accepted).
C7_BlockByteCount ==
    ReturnedFrom("write_convolutional_layer") =>
        LET l == Val(call.layer)
            n == Val(l.filters)
            k == Val(l.kernel_size)
            expected == 4 * (n + (IF l.batch_normalize THEN 3 * n ELSE 0)
                               + ((n * Val(l.channels)) \div Val(l.groups)) * k * k)
        IN  /\ 4 * Len(Appended) = expected
            /\ total_bytes_written - call.total_before = expected

\* The record breaks the rule on the normalization arrays: batch_normalize is
\* set and one of the four arrays is absent or not filters long.
BrokenNormalization(l) ==
    /\ l.type = "convolutional"
    /\ l.batch_normalize
    /\ \E a \in {l.bn_gamma, l.bn_beta, l.bn_mean, l.bn_variance} :
          IsNone(a) \/ Len(Val(a)) # Val(l.filters)

\* C12 as stated: write_convolutional_layer on a record with batch_normalize
\* set fails whenever one of the four normalization arrays (scale, shift,
\* mean, variance) is absent or has a length other than filters.
C12_NormalizationArraysValidated ==
    (call.op = "write_convolutional_layer" /\ BrokenNormalization(Val(call.layer))) =>
        call.raised # "none"

\* C13 as stated: verify_darknet_weights_header returns the (major, minor,
\* revision, seen) that write_header wrote, for every file the writer
\* produces, the one that holds a header and no block included.
C13_HeaderRoundTrip ==
    LET written == HeaderWords(args.major, args.minor, args.revision, args.seen).words
    IN  (/\ call.op = "verify_darknet_weights_header"
         /\ file_handle = "None"
         /\ Len(file) >= Len(written)
         /\ SubSeq(file, 1, Len(written)) = written) =>
            /\ call.raised = "none"
            /\ result = Some(<<args.major, args.minor, args.revision, args.seen>>)

(***************************************************************************)
(* The companion reader of the weights file.  utils.py holds its primitive *)
(* read_binary_floats; the block-by-block reader is modelled from the      *)
(* specification (section 4.2: it replays the branch on the version for    *)
(* the width of seen and takes filterCount, inputChannels, kernelSize and  *)
(* hasNormalization of each layer from a schema).                          *)
(***************************************************************************)
\* The float32 value whose four bytes are the int32 v: an integer where the
\* value is one (below 2^31), else the value given by its bits.
Float32OfBits(v) ==
    LET magnitude == IF v < 0 THEN (v + 2147483647) + 1 ELSE v
        e == (magnitude \div 2^23) - 127
        m == magnitude % 2^23
        whole == e >= 0 /\ e <= 30 /\ (e >= 23 \/ m % 2^(23 - e) = 0)
        a == IF e >= 23 THEN (2^23 + m) * 2^(e - 23) ELSE 2^e + m \div 2^(23 - e)
    IN  IF magnitude = 0 THEN 0
        ELSE IF ~whole THEN [bits |-> v]
        ELSE IF v < 0 THEN -a ELSE a

\* np.fromfile(f, dtype=np.float32) on one word of the file
WordAsFloat32(word) == IF word.t = "float32" THEN word.v ELSE Float32OfBits(word.v)

\* read_binary_floats(file_handle, count) with the handle at word pos (1-based):
\* None when it raises ValueError (fewer than count values are left), else the
\* values read.
ReadBinaryFloats(words, pos, count) ==
    LET left == Len(words) - pos + 1
        data == [i \in 1..(IF left < count THEN (IF left < 0 THEN 0 ELSE left) ELSE count)
                    |-> WordAsFloat32(words[pos + i - 1])]
    IN  IF Len(data) # count THEN None ELSE Some(data)

\* The schema entry of a convolution record.
SchemaOf(l) ==
    [filterCount |-> Val(l.filters), inputChannels |-> Val(l.channels),
     kernelSize |-> Val(l.kernel_size), hasNormalization |-> l.batch_normalize]

\* The number of words of the header: seen is 8 bytes wide when
\* major*10 + minor >= 2 and 4 bytes wide otherwise.
ReaderHeaderWords(words) ==
    IF (words[1].v * 10 + words[2].v) >= 2 THEN 5 ELSE 4

\* One block read at word pos under the schema entry e: None on a short read,
\* else the arrays and the position after the block.
ReadBlock(words, pos, e) ==
    LET n == e.filterCount
        nw == e.filterCount * e.inputChannels * e.kernelSize * e.kernelSize
        bnpos == pos + n
        wpos == IF e.hasNormalization THEN bnpos + 3 * n ELSE bnpos
        biases == ReadBinaryFloats(words, pos, n)
        scale == IF e.hasNormalization THEN ReadBinaryFloats(words, bnpos, n)
                 ELSE Some(<<>>)
        mean == IF e.hasNormalization THEN ReadBinaryFloats(words, bnpos + n, n)
                ELSE Some(<<>>)
        variance == IF e.hasNormalization THEN ReadBinaryFloats(words, bnpos + 2 * n, n)
                    ELSE Some(<<>>)
        weights == ReadBinaryFloats(words, wpos, nw)
    IN  IF \E a \in {biases, scale, mean, variance, weights} : IsNone(a) THEN None
        ELSE Some([biases |-> Val(biases), scale |-> Val(scale), mean |-> Val(mean),
                   variance |-> Val(variance), weights |-> Val(weights),
                   next |-> wpos + nw])

\* The blocks of the schema read one after the other from word pos on.
RECURSIVE ReadBlocks(_, _, _)
ReadBlocks(words, pos, schema) ==
    IF schema = <<>> THEN Some(<<>>)
    ELSE LET first == ReadBlock(words, pos, Head(schema))
         IN  IF IsNone(first) THEN None
             ELSE LET rest == ReadBlocks(words, Val(first).next, Tail(schema))
                  IN  IF IsNone(rest) THEN None
                      ELSE Some(<<Val(first)>> \o Val(rest))

\* The whole file read back: the header is skipped, then the blocks are read.
ReadWeightsFile(words, schema) ==
    ReadBlocks(words, ReaderHeaderWords(words) + 1, schema)

\* float32 values of an array a record holds
AsFloat32(a) == [i \in 1..Len(a) |-> ToFloat32(a[i])]

\* What the record l holds, as float32 arrays (zeros for absent biases).
HeldArrays(l) ==
    [biases |-> IF IsNone(l.biases) THEN Zeros(Val(l.filters))
                ELSE AsFloat32(Val(l.biases)),
     scale |-> IF l.batch_normalize THEN AsFloat32(Val(l.bn_gamma)) ELSE <<>>,
     mean |-> IF l.batch_normalize THEN AsFloat32(Val(l.bn_mean)) ELSE <<>>,
     variance |-> IF l.batch_normalize THEN AsFloat32(Val(l.bn_variance)) ELSE <<>>,
     weights |-> AsFloat32(Val(l.weights).data)]

\* C14 as stated: after write_model has written a layer sequence, reading the
\* file back block by block under the schema of its convolution records gives,
\* for every convolution, the biases, scale, mean, variance and weights the
\* record held (as float32), each block starting where the previous one ended.
C14_ArrayRoundTrip ==
    ReturnedFrom("write_model") =>
        LET convs == ConvLayers(args.layers)
            read == ReadWeightsFile(file, [i \in 1..Len(convs) |-> SchemaOf(convs[i])])
        IN  /\ ~IsNone(read)
            /\ \A i \in 1..Len(convs) :
                  [a \in {"biases", "scale", "mean", "variance", "weights"} |->
                      Val(read)[i][a]] = HeldArrays(convs[i])

\* C19: a convolution record without biases and without normalization is
\* written without error, and its block starts with filters zeros in the place
\* of the biases (the weights follow).
C19_MissingBiasesWrittenAsZeros ==
    LET l == Val(call.layer)
    IN  (/\ call.op = "write_convolutional_layer"
         /\ call.raised # "RuntimeError"
         /\ l.type = "convolutional"
         /\ IsNone(l.biases)
         /\ ~l.batch_normalize
         /\ ~IsNone(l.weights)) =>
            /\ call.raised = "none"
            /\ KeptPrefix
            /\ SubSeq(Appended, 1, Val(l.filters)) =
                   [i \in 1..Val(l.filters) |-> [t |-> "float32", v |-> 0]]
            /\ Len(Appended) = Val(l.filters) + Len(Val(l.weights).data)

C19_ZeroBiasesWritten ==
    /\ ReturnedFrom("write_convolutional_layer")
    /\ Val(call.layer) = [ConvRecord EXCEPT !.biases = None]
    /\ Len(call.file_before) > 0
    /\ Appended = <<[t |-> "float32", v |-> 0], [t |-> "float32", v |-> 0],
                    [t |-> "float32", v |-> 7], [t |-> "float32", v |-> 8]>>

\* C8: write_header appends major, minor, revision as three int32 words in that
\* order, then seen as 8 bytes when major*10 + minor >= 2 and as 4 bytes
\* otherwise; the header is 20 or 16 bytes and the counter grows by as much.
C8_HeaderLayout ==
    ReturnedFrom("write_header") =>
        LET wide == args.major * 10 + args.minor >= 2
        IN  /\ KeptPrefix
            /\ Len(Appended) = (IF wide THEN 5 ELSE 4)
            /\ Appended[1] = [t |-> "int32", v |-> args.major]
            /\ Appended[2] = [t |-> "int32", v |-> args.minor]
            /\ Appended[3] = [t |-> "int32", v |-> args.revision]
            /\ Appended[4] = [t |-> "int32", v |-> args.seen]
            /\ wide => Appended[5] = [t |-> "int32", v |-> IF args.seen < 0 THEN -1 ELSE 0]
            /\ total_bytes_written - call.total_before = (IF wide THEN 20 ELSE 16)

C8_HeaderWritten ==
    /\ ReturnedFrom("write_header")
    /\ args.major = 0
    /\ args.minor = 2
    /\ call.total_before = 0
    /\ total_bytes_written = 20

\* What C25 says of one method call, the step from the state before the call
\* to the state after it.
LifecycleStep ==
    /\ (call'.op \in {"write_header", "write_convolutional_layer"} /\ file_handle = "None")
          => /\ call'.raised = "RuntimeError"
             /\ UNCHANGED <<file, total_bytes_written, file_handle>>
    /\ call'.op = "write_model" => file_handle' = "None"
    /\ (call'.op = "close" /\ file_handle = "None")
          => UNCHANGED <<file, total_bytes_written, file_handle>>
    /\ call'.op = "open" => total_bytes_written' = 0

\* C25: without an open file write_header and write_convolutional_layer raise
\* RuntimeError and write nothing; after write_model, returned or raised, the
\* handle is None; close on a closed writer changes nothing; open sets
\* total_bytes_written to 0.
C25_WriterLifecycle == [][LifecycleStep]_vars

C25_WriteModelRaisedPartWay ==
    /\ call.op = "write_model"
    /\ call.raised = "ValueError"
    /\ Len(args.layers) = 2
    /\ Len(file) > 5
    /\ call.total_before > 0
    /\ file_handle = "None"

\* The block the claims expect of a convolution record: biases (zeros when
\* absent), then scale, mean, variance only when batch_normalize, then weights.
ExpectedBlock(l) ==
    (IF IsNone(l.biases) THEN FloatWords(Zeros(Val(l.filters)))
     ELSE FloatWords(Val(l.biases)))
    \o (IF l.batch_normalize
        THEN FloatWords(Val(l.bn_gamma)) \o FloatWords(Val(l.bn_mean))
             \o FloatWords(Val(l.bn_variance))
        ELSE <<>>)
    \o FloatWords(Val(l.weights).data)

\* C9: a block is biases, then (only with batch_normalize) scale, mean and
\* variance, then weights; without batch_normalize nothing lies between the
\* biases and the weights.
C9_BlockOrder ==
    ReturnedFrom("write_convolutional_layer") =>
        /\ KeptPrefix
        /\ Appended = ExpectedBlock(Val(call.layer))

C9_FusedBlockWritten ==
    /\ ReturnedFrom("write_convolutional_layer")
    /\ Val(call.layer) = FusedRecord
    /\ Len(call.file_before) > 0
    /\ Len(Appended) = 10

RECURSIVE ExpectedBlocks(_)
ExpectedBlocks(ls) ==
    IF ls = <<>> THEN <<>>
    ELSE (IF IsConv(Head(ls)) THEN ExpectedBlock(Head(ls)) ELSE <<>>)
         \o ExpectedBlocks(Tail(ls))

ExpectedHeader ==
    <<[t |-> "int32", v |-> args.major], [t |-> "int32", v |-> args.minor],
      [t |-> "int32", v |-> args.revision], [t |-> "int32", v |-> args.seen]>>
    \o (IF args.major * 10 + args.minor >= 2
        THEN <<[t |-> "int32", v |-> IF args.seen < 0 THEN -1 ELSE 0]>> ELSE <<>>)

\* What write_model wrote: the words of the file up to the position its handle
\* reached.
WrittenByModel == SubSeq(file, 1, position)

\* C10: what write_model writes is the header followed by one block per
\* convolution record, in the order of the list; the records of any other kind
\* add nothing, and a list without convolution records gives the header alone.
\* These words start the file, and they are the whole file unless write_model
\* was called on a writer whose file was open (the words that handle buffered
\* may then follow them).  Stated for the calls whose open() succeeded.
C10_ModelLayout ==
    (call.op = "write_model" /\ args.path_ok) =>
        /\ SubSeq(file, 1, Len(ExpectedHeader)) = ExpectedHeader
        /\ call.raised = "none" =>
               WrittenByModel = ExpectedHeader \o ExpectedBlocks(args.layers)
        /\ (\A i \in 1..Len(args.layers) : ~IsConv(args.layers[i])) =>
               (call.raised = "none" /\ WrittenByModel = ExpectedHeader)
        /\ call.handle_before = "None" => file = WrittenByModel

C10_TwoBlocksInOrder ==
    /\ ReturnedFrom("write_model")
    /\ Len(args.layers) = 2
    /\ args.layers[1] = FusedRecord
    /\ args.layers[2] = ConvRecord
    /\ Len(file) = Len(ExpectedHeader) + 14

(***************************************************************************)
(* DarknetCfgGenerator (cfg_generator.py).                                 *)
(*                                                                         *)
(* The cfg file is the sequence of its lines, each without its "\n"; a     *)
(* blank line is "".  Every file.write of the generator writes one line.   *)
(***************************************************************************)
DigitChars == <<"0", "1", "2", "3", "4", "5", "6", "7", "8", "9">>

\* str(n) of an int
RECURSIVE Str(_)
Str(n) ==
    IF n < 0 THEN "-" \o Str(-n)
    ELSE IF n < 10 THEN DigitChars[n + 1]
    ELSE Str(n \div 10) \o DigitChars[(n % 10) + 1]

\* What an f-string prints for an Optional[int] field
StrOpt(o) == IF IsNone(o) THEN "None" ELSE Str(Val(o))

\* sep.join(str(l) for l in xs)
RECURSIVE Join(_, _)
Join(sep, xs) ==
    IF xs = <<>> THEN ""
    ELSE IF Len(xs) = 1 THEN Str(xs[1])
    ELSE Str(xs[1]) \o sep \o Join(sep, Tail(xs))

\* write_net_section, with the defaults momentum=0.9 and decay=0.0005
CfgWriteNetSection(input_shape, batch, subdivisions) ==
    LET height == input_shape[1]
        width == input_shape[2]
        channels == input_shape[3]
    IN  << "[net]",
           "batch=" \o Str(batch),
           "subdivisions=" \o Str(subdivisions),
           "width=" \o Str(width),
           "height=" \o Str(height),
           "channels=" \o Str(channels),
           "momentum=0.9",
           "decay=0.0005",
           "" >>

\* "# Determine activation", passing the rectifier names through unchanged
DarknetActivationUnmapped(activation) ==
    IF activation = Some("linear") THEN "linear"
    ELSE IF activation \in {Some("relu"), Some("leaky"), Some("leaky_relu")}
         THEN Val(activation)
         ELSE "linear"

\* "# Determine activation" of write_convolutional_layer
DarknetActivation(activation) ==
    IF activation = Some("linear") THEN "linear"
    ELSE IF activation \in {Some("relu"), Some("leaky"), Some("leaky_relu")}
         THEN "leaky"
         ELSE "linear"

\* write_convolutional_layer, with pad written before stride
CfgWriteConvolutionalLayerPadFirst(layer) ==
    <<"[convolutional]">>
    \o (IF layer.batch_normalize THEN <<"batch_normalize=1">> ELSE <<>>)
    \o << "filters=" \o StrOpt(layer.filters),
          "size=" \o StrOpt(layer.kernel_size),
          "pad=" \o (IF ~IsNone(layer.padding) /\ Val(layer.padding) # 0
                     THEN "1" ELSE "0"),
          "stride=" \o StrOpt(layer.stride) >>
    \o (IF ~IsNone(layer.groups) /\ Val(layer.groups) # 0 /\ Val(layer.groups) > 1
        THEN <<"groups=" \o StrOpt(layer.groups)>> ELSE <<>>)
    \o << "activation=" \o DarknetActivation(layer.activation), "" >>

\* write_convolutional_layer of the generator
CfgWriteConvolutionalLayer(layer) ==
    <<"[convolutional]">>
    \o (IF layer.batch_normalize THEN <<"batch_normalize=1">> ELSE <<>>)
    \o << "filters=" \o StrOpt(layer.filters),
          "size=" \o StrOpt(layer.kernel_size),
          "stride=" \o StrOpt(layer.stride),
          "pad=" \o (IF ~IsNone(layer.padding) /\ Val(layer.padding) # 0
                     THEN "1" ELSE "0") >>
    \o (IF ~IsNone(layer.groups) /\ Val(layer.groups) # 0 /\ Val(layer.groups) > 1
        THEN <<"groups=" \o StrOpt(layer.groups)>> ELSE <<>>)
    \o << "activation=" \o DarknetActivation(layer.activation), "" >>

\* write_maxpool_layer
CfgWriteMaxpoolLayer(layer) ==
    << "[maxpool]",
       "size=" \o StrOpt(layer.pool_size),
       "stride=" \o StrOpt(layer.pool_stride),
       "" >>

\* write_upsample_layer
CfgWriteUpsampleLayer(layer) ==
    << "[upsample]", "stride=" \o StrOpt(layer.stride), "" >>

\* "if layer.layers:" is false for None and for the empty list
HasLayers(layer) == ~IsNone(layer.layers) /\ Val(layer.layers) # <<>>

\* write_route_layer, keeping only the first reference
CfgWriteRouteLayerFirstOnly(layer) ==
    << "[route]",
       IF HasLayers(layer) THEN "layers=" \o Str(Val(layer.layers)[1])
       ELSE "layers=-1",
       "" >>

\* write_route_layer
CfgWriteRouteLayer(layer) ==
    << "[route]",
       IF HasLayers(layer) THEN "layers=" \o Join(", ", Val(layer.layers))
       ELSE "layers=-1",
       "" >>

\* write_shortcut_layer
CfgWriteShortcutLayer(layer) ==
    << "[shortcut]",
       IF HasLayers(layer) THEN "from=" \o Str(Val(layer.layers)[1])
       ELSE "from=-3",
       "activation=linear",
       "" >>

\* write_yolo_layer, with its defaults (num_classes=80, anchors=None, mask=None);
\* no method of the generator calls it
CfgWriteYoloLayer ==
    << "[yolo]",
       "mask=6,7,8",
       "anchors=10,13, 16,30, 33,23, 30,61, 62,45, 59,119, 116,90, 156,198, 373,326",
       "classes=" \o Str(80),
       "num=9",
       "jitter=.3",
       "ignore_thresh=.5",
       "truth_thresh=1",
       "random=1",
       "" >>

\* write_layer: the section of one record; a type without a branch writes nothing
CfgWriteLayer(layer) ==
    CASE layer.type = "convolutional" -> CfgWriteConvolutionalLayer(layer)
      [] layer.type = "maxpool" -> CfgWriteMaxpoolLayer(layer)
      [] layer.type = "upsample" -> CfgWriteUpsampleLayer(layer)
      [] layer.type = "route" -> CfgWriteRouteLayer(layer)
      [] layer.type = "shortcut" -> CfgWriteShortcutLayer(layer)
      [] OTHER -> <<>>

\* The loop of generate over the records that are no batch_normalization
RECURSIVE CfgLayerLoop(_)
CfgLayerLoop(ls) ==
    IF ls = <<>> THEN <<>>
    ELSE (IF Head(ls).type # "batch_normalization"
          THEN CfgWriteLayer(Head(ls)) ELSE <<>>)
         \o CfgLayerLoop(Tail(ls))

\* generate: the lines of the file it writes
CfgGenerate(ls, input_shape, batch, subdivisions) ==
    CfgWriteNetSection(input_shape, batch, subdivisions) \o CfgLayerLoop(ls)

(***************************************************************************)
(* The arguments a caller hands to the generator.                          *)
(***************************************************************************)
S_route == <<"r">>
S_shortcut == <<"s">>
S_upsample == <<"u">>
S_yolo == <<"y">>

\* The convolution of the emission example: filters=32, kernel 3, stride 1,
\* padding 1, normalized, leaky.
CfgConvRecord ==
    [LayerInfo(S_conv, "convolutional", 0) EXCEPT
        !.filters = Some(32), !.channels = Some(3), !.kernel_size = Some(3),
        !.stride = Some(1), !.padding = Some(1), !.groups = Some(1),
        !.activation = Some("leaky"), !.batch_normalize = TRUE]

\* config['activation'] of a Keras layer, and None (a record built by hand)
Activations == { None, Some("linear"), Some("relu"), Some("leaky"),
                 Some("leaky_relu"), Some("mish"), Some("LeakyReLU") }

CfgConvRecords ==
    { [CfgConvRecord EXCEPT !.activation = a] : a \in Activations }
    \cup { [CfgConvRecord EXCEPT !.batch_normalize = bn, !.padding = pad,
                                 !.groups = g, !.stride = Some(2)] :
             bn \in BOOLEAN, pad \in {Some(0), Some(1)},
             g \in {None, Some(1), Some(2)} }

ReferenceLists == { None, Some(<<>>), Some(<<-1>>), Some(<<-1, 8>>), Some(<<-1, -4, 61>>) }

CfgRecords ==
    CfgConvRecords
    \cup { [LayerInfo(S_max_pooling2d, "maxpool", 0) EXCEPT
              !.pool_size = Some(2), !.pool_stride = Some(2)],
           [LayerInfo(S_upsample, "upsample", 0) EXCEPT !.stride = Some(2)],
           [LayerInfo(S_bn, "batch_normalization", 0) EXCEPT
              !.bn_gamma = Some(<<3, 4>>), !.bn_beta = Some(<<11, 12>>),
              !.bn_mean = Some(<<5, 6>>), !.bn_variance = Some(<<7, 9>>)],
           LayerInfo(S_yolo, "yolo", 0) }
    \cup { [LayerInfo(S_route, "route", 0) EXCEPT !.layers = r] : r \in ReferenceLists }
    \cup { [LayerInfo(S_shortcut, "shortcut", 0) EXCEPT !.layers = r] :
             r \in ReferenceLists }

CfgLayerLists == UNION { [1..n -> CfgRecords] : n \in 0..MaxCfgLayers }

\* (input_shape, batch, subdivisions)
NetArgs == { << <<416, 416, 3>>, 1, 1 >>, << <<320, 608, 1>>, 64, 16 >> }

CfgArgs ==
    { [layers |-> ls, input_shape |-> n[1], batch |-> n[2], subdivisions |-> n[3]] :
        ls \in CfgLayerLists, n \in NetArgs }

(***************************************************************************)
(* The generator as a state machine.                                       *)
(***************************************************************************)
InitCfg ==
    /\ model = <<>>
    /\ layers = <<>>
    /\ parsed = FALSE
    /\ prev_layers = <<>>
    /\ runs = 0
    /\ args = NoArgs
    /\ WriterIdle
    /\ ReaderIdle
    /\ cfg_args \in CfgArgs
    /\ cfg_file = None
    /\ MainIdle

\* generate(layers, input_shape, batch, subdivisions): open(output_path, 'w')
\* replaces what the path held.
Generate ==
    /\ cfg_file' = Some(CfgGenerate(cfg_args.layers, cfg_args.input_shape,
                                    cfg_args.batch, cfg_args.subdivisions))
    /\ UNCHANGED <<parserVars, writerVars, readerVars, mainVars, cfg_args>>

NextCfg == Generate

SpecCfg == InitCfg /\ [][NextCfg]_vars

(***************************************************************************)
(* main (h5_to_darknet.py): the conversion pipeline.                       *)
(***************************************************************************)
\* BaseParser.validate(): is_valid.  input_shape is a non-empty tuple once
\* parse_layers has run, so "if not self.input_shape" adds no error.
Validate(ls) ==
    /\ ls # <<>>
    /\ \A i \in 1..Len(ls) :
          ls[i].type = "convolutional" =>
              /\ ~IsNone(ls[i].weights)
              /\ ls[i].batch_normalize =>
                    /\ ~IsNone(ls[i].bn_gamma)
                    /\ ~IsNone(ls[i].bn_mean)
                    /\ ~IsNone(ls[i].bn_variance)

\* model.input_shape of a loaded model: one shape, or the list of the shapes
\* of a model with several inputs.  (None, None, 224, 3), (None, 320, 0, 1)
\* first of two, and (None, 10).
KerasInputShape == [is_list |-> FALSE, value |-> <<None, None, Some(224), Some(3)>>]

KerasInputShapes ==
    { KerasInputShape,
      [is_list |-> TRUE, value |-> << <<None, Some(320), Some(0), Some(1)>>,
                                     <<None, Some(224), Some(224), Some(3)>> >>],
      [is_list |-> FALSE, value |-> <<None, Some(10)>>] }

\* KerasParser.get_input_shape(): (height, width, channels); m is None while
\* self.model is None, else model.input_shape.
GetInputShape(m) ==
    IF IsNone(m) THEN <<0, 0, 0>>
    ELSE LET input_shape == IF Val(m).is_list THEN Val(m).value[1] ELSE Val(m).value
         IN  IF Len(input_shape) = 4
             THEN << IF ~IsNone(input_shape[2]) /\ Val(input_shape[2]) # 0
                     THEN Val(input_shape[2]) ELSE 416,
                     IF ~IsNone(input_shape[3]) /\ Val(input_shape[3]) # 0
                     THEN Val(input_shape[3]) ELSE 416,
                     IF ~IsNone(input_shape[4]) /\ Val(input_shape[4]) # 0
                     THEN Val(input_shape[4]) ELSE 3 >>
             ELSE <<416, 416, 3>>

\* "if args.x:" on an Optional[int] option
Given(o) == ~IsNone(o) /\ Val(o) # 0

\* determine_input_shape(args, parser_input_shape)
DetermineInputShape(a, parser_input_shape) ==
    LET h == parser_input_shape[1]
        w == parser_input_shape[2]
        c == parser_input_shape[3]
    IN  << IF Given(a.img_height) THEN Val(a.img_height)
           ELSE IF Given(a.img_size) THEN Val(a.img_size) ELSE h,
           IF Given(a.img_width) THEN Val(a.img_width)
           ELSE IF Given(a.img_size) THEN Val(a.img_size) ELSE w,
           IF a.channels # 0 THEN a.channels ELSE c >>

\* get_weights() of a BatchNormalization over three channels
WideBnWeights == << <<51, 51, 51>>, <<52, 52, 52>>, <<53, 53, 53>>, <<54, 54, 54>> >>

\* The Keras layers of the models main is run on.
MainLayers ==
    { KerasLayer("Conv2D", Suffixed(S_conv2d, <<"1","2">>), <<KernelHWIO, <<5, 6>>>>),
      KerasLayer("Conv2D", S_conv2d, <<KernelHWIO>>),
      \* a Conv2D whose get_weights() is empty
      KerasLayer("Conv2D", Suffixed(S_conv2d, <<"7">>), <<>>),
      KerasLayer("BatchNormalization", Suffixed(S_batch_normalization, <<"1","2">>),
                 BnWeights(1)),
      \* a normalization of another branch, three channels wide
      KerasLayer("BatchNormalization", Suffixed(S_bn, <<"1","2">>), WideBnWeights),
      KerasLayer("MaxPooling2D", S_max_pooling2d, <<>>),
      KerasLayer("Concatenate", S_concatenate, <<>>),
      KerasLayer("LeakyReLU", S_leaky_re_lu, <<>>) }

MainModels ==
    UNION { {m \in [1..n -> MainLayers] : DistinctNames(m)} : n \in 0..MaxMainModelLen }

\* The argparse namespace (the options main reads), input_ok, weights_ok and
\* cfg_ok.
CliArgs ==
    { [seen |-> s, batch |-> b[1], subdivisions |-> b[2], input_ok |-> ok,
       weights_ok |-> weights_ok, cfg_ok |-> cfg_ok, input_shape |-> shape,
       img_size |-> sz, img_width |-> None, img_height |-> None, channels |-> 3] :
        s \in {0, 7}, b \in {<<1, 1>>, <<64, 16>>}, ok \in BOOLEAN,
        weights_ok \in BOOLEAN, cfg_ok \in BOOLEAN, shape \in KerasInputShapes,
        sz \in {None, Some(608)} }

InitMain ==
    /\ model \in MainModels
    /\ layers = <<>>
    /\ parsed = FALSE
    /\ prev_layers = <<>>
    /\ runs = 0
    /\ args = NoArgs
    /\ WriterIdle
    /\ ReaderIdle
    /\ CfgIdle
    /\ cli \in CliArgs
    /\ pc = "start"
    /\ exit_code = None

\* "return n"
Return(n) ==
    /\ pc' = "exit"
    /\ exit_code' = Some(n)

\* Lines 140-184: the input file, the output paths, the format, the parser
\* and load_model; any of them failing returns 1.
MainLoad ==
    /\ pc = "start"
    /\ IF cli.input_ok THEN pc' = "loaded" /\ UNCHANGED exit_code
       ELSE Return(1)
    /\ UNCHANGED <<parserVars, writerVars, readerVars, cfgVars, cli>>

\* Lines 186-200: layers = parser.parse_layers(); "if not layers: return 1"
MainParse ==
    /\ pc = "loaded"
    /\ prev_layers' = ParseLoop(model, 1, 0, <<>>)
    /\ layers' = MatchConvBnPairs(prev_layers')
    /\ parsed' = TRUE
    /\ runs' = 1
    /\ IF layers' = <<>> THEN Return(1)
       ELSE pc' = "parsed" /\ UNCHANGED exit_code
    /\ UNCHANGED <<model, writerVars, readerVars, cfgVars, cli>>

\* Lines 202-216 with the errors of validate() logged and the run going on.
MainValidateGoingOn ==
    /\ pc = "parsed"
    /\ pc' = "validated"
    /\ UNCHANGED <<parserVars, writerVars, readerVars, cfgVars, cli, exit_code>>

\* Lines 202-216: parser.validate(); "if not is_valid: return 1"
MainValidate ==
    /\ pc = "parsed"
    /\ IF Validate(layers) THEN pc' = "validated" /\ UNCHANGED exit_code
       ELSE Return(1)
    /\ UNCHANGED <<parserVars, writerVars, readerVars, cfgVars, cli>>

\* Lines 218-230: write_darknet_weights(args.output_weights, layers), which is
\* DarknetWeightsWriter(output_path).write_model(layers) with the defaults of
\* major, minor, revision and seen; "except Exception: return 1", also when
\* the open() of write_model raises and no file is written.
MainWriteWeights ==
    /\ pc = "validated"
    /\ args' = [layers |-> layers, major |-> 0, minor |-> 2, revision |-> 0, seen |-> 0,
                path_ok |-> cli.weights_ok]
    /\ LET out == ModelWords(args'.layers, args'.major, args'.minor,
                             args'.revision, args'.seen)
           raised == IF args'.path_ok THEN out.raised ELSE "IsADirectoryError"
       IN  /\ call' = [op |-> "write_model", layer |-> None, raised |-> raised,
                       handle_before |-> file_handle, file_before |-> file,
                       position_before |-> position,
                       total_before |-> total_bytes_written]
           /\ ncalls' = ncalls + 1
           /\ IF args'.path_ok
              THEN /\ file' = out.words
                   /\ position' = Len(out.words)
                   /\ flushed' = Len(out.words)
                   /\ disk' = Some(file')
                   /\ total_bytes_written' =
                          HeaderBytes(args'.major, args'.minor)
                          + NBytes(LayersWords(args'.layers).words)
              ELSE UNCHANGED <<file, position, flushed, disk, total_bytes_written>>
           /\ file_handle' = "None"
           /\ IF raised = "none" THEN pc' = "weights_written" /\ UNCHANGED exit_code
              ELSE Return(1)
    /\ UNCHANGED <<parserVars, readerVars, cfgVars, cli>>

\* Lines 232-254: generate_darknet_cfg(args.output_cfg, layers, input_shape,
\* batch, subdivisions); return 0.  When the open() of generate raises (the
\* path names a directory, say) no file is written and "except Exception"
\* returns 1.
MainGenerateCfg ==
    /\ pc = "weights_written"
    /\ cfg_args' = [layers |-> layers,
                    input_shape |-> DetermineInputShape(cli, GetInputShape(Some(cli.input_shape))),
                    batch |-> cli.batch, subdivisions |-> cli.subdivisions]
    /\ IF cli.cfg_ok
       THEN /\ cfg_file' = Some(CfgGenerate(cfg_args'.layers, cfg_args'.input_shape,
                                            cfg_args'.batch, cfg_args'.subdivisions))
            /\ Return(0)
       ELSE /\ cfg_file' = cfg_file
            /\ Return(1)
    /\ UNCHANGED <<parserVars, writerVars, readerVars, cli>>

NextMain ==
    \/ MainLoad
    \/ MainParse
    \/ MainValidate
    \/ MainWriteWeights
    \/ MainGenerateCfg

SpecMain == InitMain /\ [][NextMain]_vars

(***************************************************************************)
(* Claims about the pipeline, checked under SpecMain.                      *)
(***************************************************************************)
\* C11 as stated: when write_darknet_weights fails in a run of main, no
\* partially written weights file is left at the output path once main has
\* returned (the file is removed, or truncated to nothing).
C11_NoPartialWeightsLeft ==
    (pc = "exit" /\ call.op = "write_model" /\ call.raised # "none") =>
        file = <<>>

(***************************************************************************)
(* Claims about the cfg generator, checked under SpecCfg.                  *)
(***************************************************************************)
\* The lines of the generated file.
CfgLines == Val(cfg_file)

\* The last k lines of the generated file.
LastLines(k) == SubSeq(CfgLines, Len(CfgLines) - k + 1, Len(CfgLines))

SectionHeaders == {"[net]", "[convolutional]", "[maxpool]", "[upsample]",
                   "[route]", "[shortcut]", "[yolo]"}

\* The section header lines among the lines, in order.
RECURSIVE HeaderLines(_)
HeaderLines(lines) ==
    IF lines = <<>> THEN <<>>
    ELSE (IF Head(lines) \in SectionHeaders THEN <<Head(lines)>> ELSE <<>>)
         \o HeaderLines(Tail(lines))

\* The headers the claim expects of a layer list: one per record of a kind
\* other than batch_normalization.
RECURSIVE ExpectedSectionHeaders(_)
ExpectedSectionHeaders(ls) ==
    IF ls = <<>> THEN <<>>
    ELSE (CASE Head(ls).type = "convolutional" -> <<"[convolutional]">>
            [] Head(ls).type = "maxpool" -> <<"[maxpool]">>
            [] Head(ls).type = "upsample" -> <<"[upsample]">>
            [] Head(ls).type = "route" -> <<"[route]">>
            [] Head(ls).type = "shortcut" -> <<"[shortcut]">>
            [] Head(ls).type = "yolo" -> <<"[yolo]">>
            [] OTHER -> <<>>)
         \o ExpectedSectionHeaders(Tail(ls))

\* C15 as stated: the file starts with one [net] section, followed by exactly
\* one section per record of kind convolutional, maxpool, upsample, route,
\* shortcut or yolo (detection), in the order of the list; batch_normalization
\* records give no section.
C15_OneSectionPerRecord ==
    ~IsNone(cfg_file) =>
        HeaderLines(CfgLines) = <<"[net]">> \o ExpectedSectionHeaders(cfg_args.layers)

\* The [convolutional] section the claim expects of a record.
ExpectedConvSection(l) ==
    <<"[convolutional]">>
    \o (IF l.batch_normalize THEN <<"batch_normalize=1">> ELSE <<>>)
    \o << "filters=" \o Str(Val(l.filters)),
          "size=" \o Str(Val(l.kernel_size)),
          "stride=" \o Str(Val(l.stride)),
          IF Val(l.padding) > 0 THEN "pad=1" ELSE "pad=0" >>
    \o (IF ~IsNone(l.groups) /\ Val(l.groups) > 1
        THEN <<"groups=" \o Str(Val(l.groups))>> ELSE <<>>)
    \o << IF l.activation = Some("linear") THEN "activation=linear"
          ELSE IF l.activation \in {Some("relu"), Some("leaky"), Some("leaky_relu")}
               THEN "activation=leaky"
               ELSE "activation=linear",
          "" >>

RECURSIVE ExpectedConvSections(_)
ExpectedConvSections(ls) ==
    IF ls = <<>> THEN <<>>
    ELSE ExpectedConvSection(Head(ls)) \o ExpectedConvSections(Tail(ls))

\* The nine lines of the [net] section are not the concern of the claims below.
NetLines == 9

\* C16: a [convolutional] section is the header line, then batch_normalize=1
\* (exactly when batch_normalize), filters, size, stride, pad (1 when padding > 0,
\* else 0), groups (exactly when groups > 1), activation, then a blank line; for
\* filters=32, kernel 3, stride 1, padding 1, batch_normalize and a leaky
\* activation it is the seven lines of the example and a blank line.
C16_ConvolutionalSection ==
    (~IsNone(cfg_file) /\ \A i \in 1..Len(cfg_args.layers) : IsConv(cfg_args.layers[i])) =>
        /\ SubSeq(CfgLines, NetLines + 1, Len(CfgLines)) =
               ExpectedConvSections(cfg_args.layers)
        /\ cfg_args.layers = <<CfgConvRecord>> =>
               SubSeq(CfgLines, NetLines + 1, Len(CfgLines)) =
                   << "[convolutional]", "batch_normalize=1", "filters=32", "size=3",
                      "stride=1", "pad=1", "activation=leaky", "" >>

C16_ExampleEmitted ==
    /\ ~IsNone(cfg_file)
    /\ cfg_args.layers = <<CfgConvRecord>>
    /\ Len(CfgLines) = NetLines + 8
    /\ CfgLines[NetLines + 2] = "batch_normalize=1"

\* The last record of the list, when it is a convolution.
LastIsConv ==
    /\ ~IsNone(cfg_file)
    /\ cfg_args.layers # <<>>
    /\ IsConv(cfg_args.layers[Len(cfg_args.layers)])

LastActivation == cfg_args.layers[Len(cfg_args.layers)].activation

\* C17: the activation value written is "linear" or "leaky": linear gives
\* linear, relu, leaky and leaky_relu give leaky, any other kind and an absent
\* one give linear.
C17_ActivationMapping ==
    LastIsConv =>
        /\ LastLines(2)[1] \in {"activation=linear", "activation=leaky"}
        /\ LastActivation = Some("linear") => LastLines(2)[1] = "activation=linear"
        /\ LastActivation \in {Some("relu"), Some("leaky"), Some("leaky_relu")} =>
               LastLines(2)[1] = "activation=leaky"
        /\ LastActivation \notin {Some("linear"), Some("relu"), Some("leaky"),
                                  Some("leaky_relu")} =>
               LastLines(2)[1] = "activation=linear"

C17_RectifierAndUnknownMapped ==
    /\ LastIsConv
    /\ Len(cfg_args.layers) = 2
    /\ cfg_args.layers[1].activation = Some("relu")
    /\ LastActivation = Some("mish")
    /\ LastLines(2) = <<"activation=linear", "">>
    /\ CfgLines[NetLines + 7] = "activation=leaky"

\* The last record of the list, when it is of the given type.
LastIsOfType(type) ==
    /\ ~IsNone(cfg_file)
    /\ cfg_args.layers # <<>>
    /\ cfg_args.layers[Len(cfg_args.layers)].type = type

LastReferences == cfg_args.layers[Len(cfg_args.layers)].layers

\* The line the claim expects of a shortcut record.
ShortcutLine(r) ==
    CASE r = Some(<<-1>>) -> "from=-1"
      [] r = Some(<<-1, 8>>) -> "from=-1"
      [] r = Some(<<-1, -4, 61>>) -> "from=-1"
      [] OTHER -> "from=-3"

\* The line C18 states for a route record: the references joined by a comma.
RouteLineSingleComma(r) ==
    CASE r = Some(<<-1>>) -> "layers=-1"
      [] r = Some(<<-1, 8>>) -> "layers=-1,8"
      [] r = Some(<<-1, -4, 61>>) -> "layers=-1,-4,61"
      [] OTHER -> "layers=-1"

\* The line of a route record with the references joined by ", ".
RouteLineCommaSpace(r) ==
    CASE r = Some(<<-1>>) -> "layers=-1"
      [] r = Some(<<-1, 8>>) -> "layers=-1, 8"
      [] r = Some(<<-1, -4, 61>>) -> "layers=-1, -4, 61"
      [] OTHER -> "layers=-1"

\* C18 as stated: a route record gives layers= and its references in order,
\* joined by a single comma with nothing else between the values (layers=-1
\* for an empty list); a shortcut record gives from= and its first reference
\* (from=-3 for an empty list), then activation=linear.
C18_ReferencesCommaJoined ==
    /\ LastIsOfType("route") =>
           LastLines(3) = <<"[route]", RouteLineSingleComma(LastReferences), "">>
    /\ LastIsOfType("shortcut") =>
           LastLines(4) = <<"[shortcut]", ShortcutLine(LastReferences),
                            "activation=linear", "">>

\* C18, amended: as stated, but the references of a route record are joined by
\* a comma followed by one space.
C18_ReferencesJoinedByCommaSpace ==
    /\ LastIsOfType("route") =>
           LastLines(3) = <<"[route]", RouteLineCommaSpace(LastReferences), "">>
    /\ LastIsOfType("shortcut") =>
           LastLines(4) = <<"[shortcut]", ShortcutLine(LastReferences),
                            "activation=linear", "">>

C18_RouteAndShortcutEmitted ==
    /\ ~IsNone(cfg_file)
    /\ Len(cfg_args.layers) = 2
    /\ cfg_args.layers[1].type = "route"
    /\ cfg_args.layers[1].layers = Some(<<-1, -4, 61>>)
    /\ CfgLines[NetLines + 2] = "layers=-1, -4, 61"
    /\ LastIsOfType("shortcut")
    /\ LastReferences = Some(<<-1, 8>>)
    /\ LastLines(4)[2] = "from=-1"

(***************************************************************************)
(* Claims about the header main writes, checked under SpecMain.            *)
(***************************************************************************)
\* C20 as stated: the images-seen count given to the pipeline (--seen) is the
\* value of the seen field of the weights file main produces.
C20_SeenOptionWritten ==
    (call.op = "write_model" /\ call.raised = "none") =>
        /\ Len(file) >= 5
        /\ Int64Value(file[4].v, file[5].v) = cli.seen

(***************************************************************************)
(* Claims about the order of the steps of main, checked under SpecMain.    *)
(***************************************************************************)
\* The weights file has been written, completely.
WeightsWritten == call.op = "write_model" /\ call.raised = "none"

\* The cfg file has been written.
CfgWritten == cfg_file # None

\* C26: a run whose validation reports an error writes neither file; the cfg
\* file is written only after a weights write that completed without error;
\* main returns 0 when both files were written and 1 in every other case.
C26_PipelineOrdering ==
    /\ (parsed /\ ~Validate(layers)) => (call = NoCall /\ file = <<>> /\ ~CfgWritten)
    /\ pc \in {"validated", "weights_written"} => ~CfgWritten
    /\ CfgWritten => WeightsWritten
    /\ pc = "exit" =>
          exit_code = IF WeightsWritten /\ CfgWritten THEN Some(0) ELSE Some(1)

C26_BothWrittenInOrder ==
    /\ pc = "exit"
    /\ exit_code = Some(0)
    /\ WeightsWritten
    /\ Len(file) > 5
    /\ CfgWritten
    /\ Len(Val(cfg_file)) > NetLines

(***************************************************************************)
(* The two artifacts of one layer sequence: write_model and generate are   *)
(* called on the same list, as main does (h5_to_darknet.py:220-246), here  *)
(* for any list a caller may hold.                                         *)
(***************************************************************************)
InitPair ==
    /\ model = <<>>
    /\ layers = <<>>
    /\ parsed = FALSE
    /\ prev_layers = <<>>
    /\ runs = 0
    /\ args \in WriterArgs
    /\ WriterIdle
    /\ ReaderIdle
    /\ cfg_args = [NoCfgArgs EXCEPT !.layers = args.layers]
    /\ cfg_file = None
    /\ MainIdle

NextPair == WriteModel \/ Generate

SpecPair == InitPair /\ [][NextPair]_vars

(***************************************************************************)
(* Claims about the pairing of the two artifacts, checked under SpecPair.  *)
(***************************************************************************)
\* The convolution records of a list, in order.
ConvRecordsOf(ls) == SelectSeq(ls, IsConv)

\* The positions of the lines equal to header, in order.
RECURSIVE HeaderPositions(_, _, _)
HeaderPositions(lines, header, i) ==
    IF i > Len(lines) THEN <<>>
    ELSE (IF lines[i] = header THEN <<i>> ELSE <<>>)
         \o HeaderPositions(lines, header, i + 1)

\* The section that starts at line p: the lines up to the next header.
SectionAt(lines, p) ==
    LET next == {q \in (p + 1)..Len(lines) : lines[q] \in SectionHeaders}
        end == IF next = {} THEN Len(lines)
               ELSE (CHOOSE q \in next : \A r \in next : q <= r) - 1
    IN  SubSeq(lines, p, end)

\* The [convolutional] sections of the file, in order.
ConvSections(lines) ==
    LET ps == HeaderPositions(lines, "[convolutional]", 1)
    IN  [k \in 1..Len(ps) |-> SectionAt(lines, ps[k])]

\* What a reader takes from a section: the value of "key=<n>", or dflt when
\* the section has no such line.
SectionValue(sec, key, dflt) ==
    LET vals == {n \in 0..9 : \E i \in 1..Len(sec) : sec[i] = key \o Str(n)}
    IN  IF vals = {} THEN dflt ELSE CHOOSE n \in vals : TRUE

\* The number of float32 values a reader takes for the block of a section:
\* n biases, with batch_normalize=1 n scales, n means and n variances, then
\* n * (c / groups) * size * size weights, c being the input channels of the
\* layer.
ReaderBlockLen(sec, c) ==
    LET n == SectionValue(sec, "filters=", 0)
        size == SectionValue(sec, "size=", 0)
        groups == SectionValue(sec, "groups=", 1)
        bn == SectionValue(sec, "batch_normalize=", 0) = 1
    IN  n + (IF bn THEN 3 * n ELSE 0) + n * (c \div groups) * size * size

\* The offset (in words) of the k-th block for that reader.
RECURSIVE ReaderOffset(_, _, _, _)
ReaderOffset(secs, convs, header_len, k) ==
    IF k = 1 THEN header_len
    ELSE ReaderOffset(secs, convs, header_len, k - 1)
         + ReaderBlockLen(secs[k - 1], Val(convs[k - 1].channels))

\* Both artifacts have been written, the weights file without error.
PairWritten == call.op = "write_model" /\ call.raised = "none" /\ ~IsNone(cfg_file)

\* C24 as stated: the k-th [convolutional] section and the k-th block come
\* from the k-th convolution record; the section has batch_normalize=1
\* exactly when the block holds scales, means and variances; and a reader that
\* takes filters, size, groups and batch_normalize from the sections finds
\* every block at its offset and the end of the file after the last one.
C24_ArtifactsPaired ==
    PairWritten =>
        LET convs == ConvRecordsOf(args.layers)
            secs == ConvSections(CfgLines)
            header_len == HeaderBytes(args.major, args.minor) \div 4
            off(k) == ReaderOffset(secs, convs, header_len, k)
            len(k) == ReaderBlockLen(secs[k], Val(convs[k].channels))
        IN  /\ Len(secs) = Len(convs)
            /\ \A k \in 1..Len(convs) :
                  /\ secs[k] = ExpectedConvSection(convs[k])
                  /\ off(k) + len(k) <= Len(file)
                  /\ SubSeq(file, off(k) + 1, off(k) + len(k)) = ExpectedBlock(convs[k])
            /\ Len(convs) = 0 => Len(file) = header_len
            /\ Len(convs) > 0 => Len(file) = off(Len(convs)) + len(Len(convs))

====
